---- MODULE Spec2Model ----
(***************************************************************************)
(* RingManager and SubscriptionGroup of package-ableton-js                 *)
(* (src/src/ring-manager.ts, src/unnamed/part_003).                        *)
(*                                                                         *)
(* The manager runs on one JavaScript thread: a handler runs without       *)
(* interruption until it awaits an RPC to the DAW (get, set, addListener,  *)
(* an unsubscribe thunk, a session call); other handlers run while it is   *)
(* suspended.  Every action below is one such uninterrupted segment.       *)
(* Awaits that touch no manager state and read no modelled DAW value are   *)
(* folded into the segment that follows them.                              *)
(***************************************************************************)
EXTENDS Integers, Sequences, FiniteSets, TLC

\* ------------------------------------------------------------------ bounds
\* Widest ring a surface command asks for.
MaxWidth == 2
\* Handlers started per behaviour while others may be suspended (SpecRing).
MaxOps == 2
\* Handlers started per behaviour, one at a time (SpecLife).
MaxLifeOps == 2
\* Selected-parameter pushes and commands per behaviour (SpecParam).
MaxParamOps == 3
\* toggleMute calls per behaviour (SpecMute).
MaxToggles == 2
\* Commands per behaviour (SpecWrites).
MaxWriteOps == 2
\* toggleMute and setOffset calls per behaviour (SpecListen).
MaxListenOps == 2
MaxFocusOps == 3
MaxBareOps == 3
MaxGroupOps == 4
MaxActiveOps == 3
\* Edits in the DAW and ring moves per behaviour (SpecStale).
MaxStaleOps == 3
\* Calls of a SubscriptionGroup per behaviour when they overlap (SpecRace).
MaxRaceOps == 3
\* Selections and renames per behaviour when the handlers overlap (SpecChase).
MaxChaseOps == 2
\* Most return tracks a session has (sends per track).
MaxReturns == 1
\* Return-track changes and ring moves per behaviour (SpecSends).
MaxSendOps == 2
\* Ring moves per behaviour when an RPC may be rejected (SpecFaults).
MaxFaultOps == 2

None == "none"
\* undefined or null, where an id is expected
NoId == <<>>

\* ------------------------------------------------------------- the session
\* Track ids are opaque strings (track.raw.id); a string is the sequence of
\* its characters.  "1" is a string prefix of "12".
IdA == <<"1">>
IdB == <<"1", "2">>
IdC == <<"3">>
IdM == <<"9">>
TrackIds == {IdA, IdB, IdC, IdM}

\* The DAW's master track.
DawMaster == IdM

\* Track lists the DAW delivers (song.tracks).
InitialTracks == <<IdA, IdB, IdC>>
TrackLists == { InitialTracks, <<IdB, IdC>>, <<IdA, IdM>>, <<IdC>> }

\* Offsets and widths a surface command may carry.
OffsetArgs == -1 .. 3
WidthArgs == 0 .. MaxWidth

\* Device parameters the user may select, with the range and the default the
\* DAW reports for each.
ParamP == <<"p">>
ParamQ == <<"q">>
Params == {ParamP, ParamQ}
ParamMin == [p \in Params |-> IF p = ParamP THEN 0 ELSE 1]
ParamMax == [p \in Params |-> IF p = ParamP THEN 2 ELSE 1]
ParamDefault == [p \in Params |-> IF p = ParamP THEN 3 ELSE 1]

Max2(a, b) == IF a >= b THEN a ELSE b
Min2(a, b) == IF a <= b THEN a ELSE b
Range(f) == { f[x] : x \in DOMAIN f }
SeqToSet(s) == { s[i] : i \in 1 .. Len(s) }

\* Array.prototype.slice(start, end): a negative index counts from the end.
SliceIndex(n, len) == IF n < 0 THEN Max2(len + n, 0) ELSE Min2(n, len)
Slice(s, start, end) ==
  LET a == SliceIndex(start, Len(s))
      b == SliceIndex(end, Len(s))
  IN IF a < b THEN SubSeq(s, a + 1, b) ELSE <<>>

\* Array.prototype.indexOf / findIndex on ids, 0-based, -1 when absent.
IndexOf(s, x) ==
  IF \E i \in 1 .. Len(s) : s[i] = x
  THEN (CHOOSE i \in 1 .. Len(s) : s[i] = x /\ \A j \in 1 .. i - 1 : s[j] # x) - 1
  ELSE -1

\* String.prototype.startsWith on character sequences.
StartsWith(s, prefix) ==
  Len(prefix) <= Len(s) /\ SubSeq(s, 1, Len(prefix)) = prefix

\* ------------------------------------------------------------ listener keys
\* `track:${id}:mute`, `track:${id}:send:${si}`; the fixed words are one
\* token each, the id contributes its characters.
TrackPrefix(id) == <<"track:">> \o id
RingKey(id, prop) == TrackPrefix(id) \o <<":">> \o prop
DigitChar == <<"0", "1", "2", "3">>
SendProp(si) == <<"send", ":", DigitChar[si + 1]>>

\* The id a ring key was built for: the characters between "track:" and the
\* next ":".
KeyTrack(key) ==
  LET colon == CHOOSE i \in 2 .. Len(key) :
                 key[i] = ":" /\ \A j \in 2 .. i - 1 : key[j] # ":"
  IN SubSeq(key, 2, colon - 1)

\* Ring keys in the order subscribeRingTrack inserts them, track by track:
\* the order in which a Map of them is iterated.
TrackOrder == <<IdA, IdB, IdC, IdM>>
PropOrder ==
  << <<"name">>, <<"color">>, <<"mute">>, <<"solo">>, <<"arm">>,
     <<"volume">>, <<"panning">> >>
  \o [si \in 1 .. MaxReturns |-> SendProp(si - 1)]
AllRingKeys ==
  [n \in 1 .. Len(TrackOrder) * Len(PropOrder) |->
     RingKey(TrackOrder[((n - 1) \div Len(PropOrder)) + 1],
             PropOrder[((n - 1) % Len(PropOrder)) + 1])]

\* Keys of the global group.
GlobalKey(words) ==
  [i \in 1 .. 2 * Len(words) - 1 |->
     IF i % 2 = 1 THEN words[(i + 1) \div 2] ELSE ":"]
KeyTracks == GlobalKey(<<"song", "tracks">>)
KeyReturnTracks == GlobalKey(<<"song", "return_tracks">>)
KeySelectedParameter == GlobalKey(<<"song", "view", "selected_parameter">>)
KeyIsPlaying == GlobalKey(<<"song", "is_playing">>)
KeyRecordMode == GlobalKey(<<"song", "record_mode">>)
KeySelectedTrack == GlobalKey(<<"song", "view", "selected_track">>)
KeyParamValue == GlobalKey(<<"selected_param", "value">>)
\* the keys init() registers, in its order
InitKeys ==
  <<KeyTracks, KeyReturnTracks, KeySelectedParameter, KeyIsPlaying,
    KeyRecordMode, KeySelectedTrack>>
\* the keys of the selected track and of its playing clip
KeySelName == GlobalKey(<<"selected_track_prop", "name">>)
KeySelColor == GlobalKey(<<"selected_track_prop", "color">>)
KeyClipSlot == GlobalKey(<<"selected_track_clip", "slot">>)
KeyClipName == GlobalKey(<<"selected_track_clip", "props", "name">>)
KeyClipColor == GlobalKey(<<"selected_track_clip", "props", "color">>)
AllGlobalKeys ==
  InitKeys \o <<KeyParamValue, KeySelName, KeySelColor, KeyClipSlot,
                KeyClipName, KeyClipColor>>

\* An unsubscribe thunk: the listener registration it undoes, on the DAW
\* object `on`.  n tells apart two registrations under the same key.
NoThunk == [key |-> <<>>, n |-> -1, on |-> NoId]
EmptyMap == [k \in {} |-> NoThunk]

\* Names of tracks and clips: the one every object has at the start and the
\* one a rename gives; NoName is "".  Colors are numbers, NoColor [0, 0, 0].
OldName == "Drums"
NewName == "Drum Kit"
NoName == ""
NoColor == <<0, 0, 0>>
\* Clips: every track has two clip slots, the first holds a clip and the
\* second is empty.  Stopped is the playing_slot_index of a track that plays
\* no clip.
ClipOf(id) == <<"clip">> \o id
Clips == { ClipOf(id) : id \in TrackIds }
ClipColor == <<0, 0, 5>>
Stopped == -2
\* track.get("clip_slots") in a session: one slot per scene; the tracks of
\* `clips` hold a clip in the last of the session's first two scenes.
SlotClips(sess, id) ==
  [i \in 1 .. sess.scenes |->
     IF i = 2 /\ id \in sess.clips THEN ClipOf(id) ELSE NoId]

\* ------------------------------------------------------------------- state
VARIABLES
  \* RingManager fields
  allTracks, masterTrack, ringWidth, trackOffset,
  currentRingTrackIds, ringIndexByTrackId, trackStates, mixerCache,
  ringSubs, globalSubs,
  activeProperty, selectedParam, selectedParamName, selectedParamValue,
  selectedParamMin, selectedParamMax, selectedParamDefault,
  selectedParamSwitching,
  selectedTrackIndex, selectedTrackName, playingClipName, playingClipColor,
  \* the DAW: the session (which tracks are MIDI, which can be armed, how
  \* many return tracks, the tracks' volumes, the parameter selected when the
  \* manager starts), mute per track, value per parameter, registered
  \* listeners, writes on their way to it, notifications on their way from it
  session, dawMute, dawParam, listeners, writes, inbox,
  \* the names of its tracks and clips, and the playing slot of each track
  dawName, dawSlot,
  \* suspended handlers, and how far the manager's life has got
  runs, phase,
  \* the sink (events of the observed types) and bookkeeping of the check
  sink, observe, opsLeft, lastRun, syncedAt, offsetOp, calls

windowVars ==
  <<currentRingTrackIds, ringIndexByTrackId, trackStates, mixerCache, ringSubs>>
ringVars == <<allTracks, masterTrack, ringWidth, trackOffset, windowVars>>
paramVars ==
  <<selectedParam, selectedParamName, selectedParamValue, selectedParamMin,
    selectedParamMax, selectedParamDefault, selectedParamSwitching>>
dawVars == <<session, dawMute, dawParam, listeners, writes, inbox>>
bookVars == <<observe, lastRun, syncedAt, offsetOp>>
selectedVars == <<selectedTrackIndex, selectedTrackName>>
clipVars == <<playingClipName, playingClipColor>>
focusVars == <<selectedVars, clipVars, dawName, dawSlot>>
vars ==
  <<ringVars, globalSubs, activeProperty, paramVars, dawVars, runs, phase,
    sink, opsLeft, calls, bookVars, focusVars>>

\* ------------------------------------------------------- SubscriptionGroup
\* A group is its Map: a function from keys to thunks.
MapSet(subs, key, t) ==
  [k \in DOMAIN subs \cup {key} |-> IF k = key THEN t ELSE subs[k]]
MapDelete(subs, key) == [k \in DOMAIN subs \ {key} |-> subs[k]]

\* An entry of a Map as a handler holds it while it awaits the thunk.
Entry(subs, key) == [key |-> key, thunk |-> subs[key]]

\* removeByPrefix, up to its await: the keys that start with the prefix, in
\* Map order (`order` lists the keys a group can hold in insertion order),
\* each with the thunk remove(key) reads before it suspends.
PrefixMatches(subs, prefix, order) ==
  LET hit(k) == k \in DOMAIN subs /\ StartsWith(k, prefix)
      keys == SelectSeq(order, hit)
  IN [i \in 1 .. Len(keys) |-> Entry(subs, keys[i])]

\* A clear that forgets the first entry of its snapshot.
ClearEntriesButFirst(subs, order) ==
  LET hit(k) == k \in DOMAIN subs
      keys == SelectSeq(order, hit)
  IN [i \in 1 .. Len(keys) - 1 |-> Entry(subs, keys[i + 1])]

\* clear, up to its await: the snapshot of the entries, in Map order.
ClearEntries(subs, order) ==
  LET hit(k) == k \in DOMAIN subs
      keys == SelectSeq(order, hit)
  IN [i \in 1 .. Len(keys) |-> Entry(subs, keys[i])]

\* Thunks some handler still holds while it is suspended, or remembers to
\* have unsubscribed.
HeldThunks ==
  UNION { { r.held } \cup { r.pending[i].thunk : i \in 1 .. Len(r.pending) }
          \cup { r.existing } \cup r.prior : r \in runs }
\* The thunk a new addListener returns.
FreshThunk(key, on) ==
  LET used == listeners \cup Range(ringSubs) \cup Range(globalSubs)
              \cup HeldThunks
      n == CHOOSE i \in 0 .. Cardinality(used) :
             [key |-> key, n |-> i, on |-> on] \notin used
             /\ \A j \in 0 .. i - 1 : [key |-> key, n |-> j, on |-> on] \in used
  IN [key |-> key, n |-> n, on |-> on]

\* A listener on `key` is registered in the DAW.
Listening(key) == \E t \in listeners : t.key = key

\* ------------------------------------------------------ subscribeRingTrack
\* The RPCs of one track build at which manager state or a modelled DAW
\* value is touched when they return: "sub" registers a listener and adds
\* its key, "get" reads a value into the local state.
SubStage(prop) == [kind |-> "sub", prop |-> prop]
GetStage(what) == [kind |-> "get", prop |-> <<what>>]
DawIsMidi(id) == id \in session.midi
DawCanBeArmed(id) == id \in session.armable
StageList(id, master, nsends) ==
  << GetStage("name"), SubStage(<<"name">>), SubStage(<<"color">>) >>
  \o (IF ~master
      THEN << GetStage("mute"), SubStage(<<"mute">>), SubStage(<<"solo">>) >>
      ELSE <<>>)
  \o (IF DawCanBeArmed(id) THEN << SubStage(<<"arm">>) >> ELSE <<>>)
  \o (IF ~DawIsMidi(id)
      THEN << SubStage(<<"volume">>), SubStage(<<"panning">>) >>
      ELSE IF master THEN << GetStage("mixer_device") >> ELSE <<>>)
  \o (IF ~master
      THEN << GetStage("sends") >>
           \o [si \in 1 .. nsends |-> SubStage(SendProp(si - 1))]
      ELSE <<>>)

\* isMaster(track)
isMaster(id) == masterTrack # NoId /\ id = masterTrack

\* track.raw.color, line 1033: the color serialised with the track handle
\* when the manager received it.  The handles are those of the track list the
\* session starts with: no specification both changes a color and delivers a
\* new list.
DawColorAtStart == [id \in TrackIds |-> 0]
RawColor(id) == DawColorAtStart[id]

\* The RingTrackState and the MixerDeviceCache entry a build stores.
TrackState(id, mute, nsends) ==
  [mute |-> mute, isMidi |-> DawIsMidi(id), color |-> RawColor(id),
   volume |-> IF DawIsMidi(id) THEN 0 ELSE session.volume[id],
   sends |-> nsends, name |-> dawName[id],
   solo |-> id # DawMaster /\ id \in session.soloed,
   arm |-> DawCanBeArmed(id) /\ id \in session.armed,
   canBeArmed |-> DawCanBeArmed(id),
   panning |-> IF DawIsMidi(id) THEN 0 ELSE session.panning[id],
   sendv |-> session.sendv]
MixerEntry(id, nsends) == [volume |-> ~DawIsMidi(id), sends |-> nsends]

\* ------------------------------------------------------- syncRingListeners
\* What a sync run reads and writes, bundled so that a segment is a function
\* from the bundle to the bundle.
Mgr ==
  [idx |-> ringIndexByTrackId, st |-> trackStates, mc |-> mixerCache,
   subs |-> ringSubs, cur |-> currentRingTrackIds, ls |-> listeners]

\* What the five fetches of a parameter switch return.
NoFetch == [name |-> NoId, value |-> 0, min |-> 0, max |-> 0]

\* A handler as it is when first suspended.  n tells apart two handlers that
\* are suspended at the same place; the fields after `existing` are
\* bookkeeping of the check.
FreshRunId ==
  CHOOSE i \in 0 .. Cardinality(runs) : \A r \in runs : r.n # i
NewRun(op) ==
  [n |-> FreshRunId, op |-> op, pc |-> "session",
   newIds |-> <<>>, oldIds |-> {}, removed |-> <<>>, pending |-> <<>>,
   added |-> <<>>, master |-> FALSE, stage |-> 0, mute |-> FALSE, ns |-> 0,
   name |-> NoId, sel |-> NoId, selIndex |-> -1, slot |-> -1, from |-> <<>>,
   prior |-> {}, torn |-> TRUE, invoked |-> <<>>, raised |-> {},
   param |-> NoId, fetched |-> NoFetch,
   held |-> NoThunk, existing |-> NoThunk,
   triple |-> <<>>, kind |-> "other", inv |-> {}, reg |-> {},
   before |-> EmptyMap, emitted |-> <<>>]

Suspended(m, r) == [m |-> m, run |-> r, fin |-> FALSE]

\* lines 992-996: publish the window (the full sync is emitted by the action).
Finish(m, r) == [m |-> [m EXCEPT !.cur = r.newIds], run |-> r, fin |-> TRUE]

\* subscribeRingTrack up to its first await.
BuildEnter(m, r) ==
  Suspended(m, [r EXCEPT !.pc = "build", !.stage = 1,
                        !.master = isMaster(Head(r.added)),
                        !.mute = FALSE, !.ns = 0])

\* The add phase taking every track of the window as new.
AddPhaseAll(m, r) ==
  LET m2 == [m EXCEPT !.idx = [id \in SeqToSet(r.newIds) |-> IndexOf(r.newIds, id)]]
      r2 == [r EXCEPT !.added = r.newIds]
  IN IF r.newIds = <<>> THEN Finish(m2, r2) ELSE BuildEnter(m2, r2)

\* The add phase without the loop of lines 982-984.
AddPhaseNoIndex(m, r) ==
  LET notOld(id) == id \notin r.oldIds
      added == SelectSeq(r.newIds, notOld)
      r2 == [r EXCEPT !.added = added]
  IN IF added = <<>> THEN Finish(m, r2) ELSE BuildEnter(m, r2)

\* lines 981-990: rebuild the index map, then build the tracks that entered.
AddPhase(m, r) ==
  LET ids == r.newIds
      idx2 == [id \in DOMAIN m.idx \cup SeqToSet(ids) |->
                 IF id \in SeqToSet(ids)
                 THEN (CHOOSE i \in 1 .. Len(ids) :
                         ids[i] = id /\ \A j \in i + 1 .. Len(ids) : ids[j] # id) - 1
                 ELSE m.idx[id]]
      notOld(id) == id \notin r.oldIds
      added == SelectSeq(ids, notOld)
      m2 == [m EXCEPT !.idx = idx2]
      r2 == [r EXCEPT !.added = added]
  IN IF added = <<>> THEN Finish(m2, r2) ELSE BuildEnter(m2, r2)

\* lines 976-978
DeleteTrack(m, id) ==
  [m EXCEPT !.idx = [x \in DOMAIN m.idx \ {id} |-> m.idx[x]],
            !.st = [x \in DOMAIN m.st \ {id} |-> m.st[x]],
            !.mc = [x \in DOMAIN m.mc \ {id} |-> m.mc[x]]]

\* lines 974-979: the loop over the tracks that left, from its head to the
\* next await.  removeByPrefix suspends only if a key matches.
RECURSIVE RemoveLoop(_, _)
RemoveLoop(m, r) ==
  IF r.removed = <<>> THEN AddPhase(m, r)
  ELSE LET id == Head(r.removed)
           pend == PrefixMatches(m.subs, TrackPrefix(id), AllRingKeys)
       IN IF pend = <<>>
          THEN RemoveLoop(DeleteTrack(m, id), [r EXCEPT !.removed = Tail(@)])
          ELSE Suspended(m, [r EXCEPT !.pc = "unsub", !.pending = pend,
                       !.inv = @ \cup { pend[i].key : i \in 1 .. Len(pend) }])

\* How the new window relates to the published one (bookkeeping): the same
\* triple as the last completed run, a shift by one position, or other.
WindowKind(cur, ids, width, same) ==
  IF same THEN "same"
  ELSE IF /\ width >= 1 /\ Len(cur) = width /\ Len(ids) = width
          /\ Cardinality(SeqToSet(cur)) = width
          /\ ids[width] \notin SeqToSet(cur) /\ Tail(cur) = SubSeq(ids, 1, width - 1)
       THEN "right"
  ELSE IF /\ width >= 1 /\ Len(cur) = width /\ Len(ids) = width
          /\ Cardinality(SeqToSet(cur)) = width
          /\ ids[1] \notin SeqToSet(cur) /\ SubSeq(cur, 1, width - 1) = Tail(ids)
       THEN "left"
  ELSE "other"

\* A sync whose window holds one track at least.
SyncEnterAtLeastOne(m, r, tracks, offset, width) ==
  LET ids == Slice(tracks, offset, offset + Max2(width, 1))
      gone(id) == id \notin SeqToSet(ids)
      triple == <<tracks, offset, width>>
      kind == WindowKind(m.cur, ids, width, syncedAt = triple)
  IN RemoveLoop(m, [r EXCEPT !.newIds = ids, !.oldIds = SeqToSet(m.cur),
                             !.removed = SelectSeq(m.cur, gone),
                             !.triple = triple, !.kind = kind,
                             !.before = IF kind = "same" THEN m.subs ELSE @])

\* lines 962-979: syncRingListeners from its entry to its first await.
SyncEnter(m, r, tracks, offset, width) ==
  LET ids == Slice(tracks, offset, offset + width)
      gone(id) == id \notin SeqToSet(ids)
      triple == <<tracks, offset, width>>
      kind == WindowKind(m.cur, ids, width, syncedAt = triple)
  IN RemoveLoop(m, [r EXCEPT !.newIds = ids, !.oldIds = SeqToSet(m.cur),
                             !.removed = SelectSeq(m.cur, gone),
                             !.triple = triple, !.kind = kind,
                             !.before = IF kind = "same" THEN m.subs ELSE @])

\* subscribeRingTrack after the last RPC of a track: lines 1201-1209, then
\* the next track of the loop or the end of the run.
StoreAndNext(m, r) ==
  LET id == Head(r.added)
      m2 == [m EXCEPT
               !.mc = [x \in DOMAIN m.mc \cup {id} |->
                         IF x = id THEN MixerEntry(id, r.ns) ELSE m.mc[x]],
               !.st = [x \in DOMAIN m.st \cup {id} |->
                         IF x = id
                         THEN [TrackState(id, r.mute, r.ns) EXCEPT
                                 !.name = r.name]
                         ELSE m.st[x]]]
      r2 == [r EXCEPT !.added = Tail(@)]
  IN IF r2.added = <<>> THEN Finish(m2, r2) ELSE BuildEnter(m2, r2)

Advance(m, r) ==
  IF r.stage = Len(StageList(Head(r.added), r.master, r.ns))
  THEN StoreAndNext(m, r)
  ELSE Suspended(m, [r EXCEPT !.pc = "build", !.stage = @ + 1])

\* One RPC of subscribeRingTrack returns (lines 1022-1199).
BuildResume(m, r) ==
  LET id == Head(r.added)
      sg == StageList(id, r.master, r.ns)[r.stage]
      key == RingKey(id, sg.prop)
      t == FreshThunk(key, id)
  IN IF sg.kind = "get"
     THEN Advance(m, [r EXCEPT
            !.name = IF sg.prop = <<"name">> THEN dawName[id] ELSE @,
            !.mute = IF sg.prop = <<"mute">> THEN dawMute[id] ELSE @,
            !.ns = IF sg.prop = <<"sends">> THEN session.returns ELSE @])
     ELSE IF key \in DOMAIN m.subs
     THEN \* SubscriptionGroup.add, lines 24-27: await the thunk in place
          Suspended([m EXCEPT !.ls = @ \cup {t}],
                    [r EXCEPT !.pc = "existing", !.held = t,
                              !.existing = m.subs[key],
                              !.reg = @ \cup {key}, !.inv = @ \cup {key}])
     ELSE Advance([m EXCEPT !.ls = @ \cup {t}, !.subs = MapSet(@, key, t)],
                  [r EXCEPT !.reg = @ \cup {key}])

\* SubscriptionGroup.add after its await, line 35.
ExistingResume(m, r) ==
  Advance([m EXCEPT !.ls = @ \ {r.existing},
                    !.subs = MapSet(@, r.held.key, r.held)],
          [r EXCEPT !.held = NoThunk, !.existing = NoThunk])

\* One unsubscribe of removeByPrefix returns: remove(key), lines 45-49; when
\* it was the last one, lines 976-978 and on.
UnsubResume(m, r) ==
  LET h == Head(r.pending)
      m2 == [m EXCEPT !.ls = @ \ {h.thunk}, !.subs = MapDelete(@, h.key)]
      r2 == [r EXCEPT !.pending = Tail(@)]
  IN IF r2.pending # <<>> THEN Suspended(m2, r2)
     ELSE RemoveLoop(DeleteTrack(m2, Head(r.removed)),
                     [r2 EXCEPT !.removed = Tail(@)])

\* ------------------------------------------------------------- sendFullSync
\* lines 1274-1317, one resident.
TrackSyncEvents(m, id) ==
  LET i == IF id \in DOMAIN m.idx THEN m.idx[id] ELSE 0
      state == m.st[id]
  IN << [evt |-> "RT_MUTE", i |-> i, v |-> state.mute],
        [evt |-> "RT_SOLO", i |-> i, v |-> state.solo],
        [evt |-> "RT_ARM", i |-> i, v |-> state.arm] >>
     \o (IF ~state.isMidi
         THEN << [evt |-> "RT_VOL", i |-> i, v |-> state.volume],
                 [evt |-> "RT_PAN", i |-> i, v |-> state.panning] >>
         ELSE <<>>)
     \o << [evt |-> "RT_INFO", i |-> i, name |-> state.name,
             isMidi |-> state.isMidi] >>
     \o [si \in 1 .. state.sends |->
           [evt |-> "RT_SEND", i |-> i, si |-> si - 1, v |-> state.sendv]]

RECURSIVE FullSyncFrom(_, _)
FullSyncFrom(m, ids) ==
  IF ids = <<>> THEN <<>>
  ELSE (IF Head(ids) \in DOMAIN m.st THEN TrackSyncEvents(m, Head(ids)) ELSE <<>>)
       \o FullSyncFrom(m, Tail(ids))
sendFullSync(m) == FullSyncFrom(m, m.cur)

\* sendMessage: the sink keeps the events of the observed types.
Emit(events) ==
  LET seen(e) == e.evt \in observe
  IN sink \o SelectSeq(events, seen)

\* getTrackAtRingIndex, lines 323-326: an id, or NoId for undefined.
getTrackAtRingIndex(tracks, offset, ringIndex) ==
  IF offset + ringIndex >= 0 /\ offset + ringIndex < Len(tracks)
  THEN tracks[offset + ringIndex + 1] ELSE NoId

\* selectTrackInRing, lines 408-412: the write it sends, if any.
selectTrackInRing(ringIndex) ==
  LET track == getTrackAtRingIndex(allTracks, trackOffset, ringIndex)
  IN IF track = NoId THEN <<>>
     ELSE << [obj |-> <<"view">>, prop |-> "selected_track", value |-> track] >>

NoRun == [op |-> None]
RunSummary(r) ==
  [op |-> r.op, kind |-> r.kind, inv |-> r.inv, reg |-> r.reg,
   oldIds |-> r.oldIds, newIds |-> r.newIds, before |-> r.before]

\* subscribeSelectedTrack, line 766, to its first await: removeByPrefix
\* suspends at the unsubscribes of the keys that match; with none, the
\* handler goes on to the get of the name (line 769).
SelectedEnter(r) ==
  LET pend == PrefixMatches(globalSubs, <<"selected_track_prop">>, AllGlobalKeys)
  IN IF pend = <<>> THEN [r EXCEPT !.pc = "selName"]
     ELSE [r EXCEPT !.pc = "selUnsub", !.pending = pend]

\* The selected_track listener after followTrackIndex has returned: line 242
\* and the call of line 244.
Followed(r) == IF r.op = "selected_track" THEN { SelectedEnter(r) } ELSE {}

\* The state after one segment of a sync run; `old` is the run as it was
\* suspended ({} for a run that starts in this step).
ApplySync(res, old) ==
  /\ ringIndexByTrackId' = res.m.idx
  /\ trackStates' = res.m.st
  /\ mixerCache' = res.m.mc
  /\ ringSubs' = res.m.subs
  /\ currentRingTrackIds' = res.m.cur
  /\ listeners' = res.m.ls
  /\ runs' = (runs \ old)
              \cup (IF res.fin THEN Followed(res.run) ELSE {res.run})
  /\ selectedTrackIndex' = IF res.fin /\ res.run.op = "selected_track"
                           THEN res.run.selIndex ELSE selectedTrackIndex
  /\ lastRun' = IF res.fin THEN RunSummary(res.run) ELSE NoRun
  /\ syncedAt' = IF res.fin THEN res.run.triple ELSE syncedAt
  /\ sink' = IF res.fin THEN Emit(sendFullSync(res.m)) ELSE sink
  \* navigateRing, line 294, after its setOffset has returned
  /\ writes' = IF res.fin /\ res.run.op = "navigateRing"
               THEN writes \o selectTrackInRing(0) ELSE writes

\* What no step of the ring touches.
RingFrame ==
  UNCHANGED <<masterTrack, globalSubs, activeProperty, paramVars, session,
              dawMute, dawParam, inbox, phase, calls, observe, clipVars,
              selectedTrackName, dawName, dawSlot>>

\* ------------------------------------------------------- surface commands
\* setupRing, lines 255-269, to its first await.  setupSessionBox and
\* setSessionOffset are awaited back to back; nothing is touched between.
SetupRing(numTracks, offset) ==
  /\ opsLeft > 0
  /\ ringWidth' = numTracks
  /\ trackOffset' = offset
  /\ runs' = runs \cup {NewRun("setupRing")}
  /\ opsLeft' = opsLeft - 1
  /\ offsetOp' = "setupRing"
  /\ lastRun' = NoRun
  /\ UNCHANGED <<allTracks, windowVars, listeners, writes, sink, syncedAt,
                 selectedTrackIndex>>
  /\ RingFrame

\* setOffset, lines 274-279, to its await; `op` names the caller.
setOffset(offset, op) ==
  /\ trackOffset' = offset
  /\ runs' = runs \cup {NewRun(op)}
  /\ offsetOp' = op
  /\ UNCHANGED <<allTracks, ringWidth, windowVars, listeners, writes, sink,
                 syncedAt, selectedTrackIndex>>
  /\ RingFrame

SetOffset(offset) ==
  /\ opsLeft > 0
  /\ opsLeft' = opsLeft - 1
  /\ lastRun' = NoRun
  /\ setOffset(offset, "setOffset")

\* Bookkeeping: the command that returned at once in the last step, with
\* the offset it found.
Stayed(cmd, arg) == [op |-> None, cmd |-> cmd, arg |-> arg, at |-> trackOffset]

\* A command that returns at once: nothing changes.
NoMove ==
  /\ UNCHANGED <<allTracks, ringWidth, trackOffset, windowVars, listeners,
                 writes, sink, syncedAt, runs, offsetOp, selectedTrackIndex>>
  /\ RingFrame

\* navigateRing that does not clamp the new offset at 0.
NavigateRingNoFloor(direction) ==
  LET delta == IF direction = "right" THEN 1 ELSE -1
      maxOffset == Max2(0, Len(allTracks) - ringWidth)
      newOffset == Min2(trackOffset + delta, maxOffset)
  IN /\ opsLeft > 0
     /\ opsLeft' = opsLeft - 1
     /\ IF newOffset # trackOffset
        THEN setOffset(newOffset, "navigateRing") /\ lastRun' = NoRun
        ELSE NoMove /\ lastRun' = Stayed("navigateRing", direction)

\* navigateRing, lines 284-296, to the await of setOffset.
NavigateRing(direction) ==
  LET delta == IF direction = "right" THEN 1 ELSE -1
      maxOffset == Max2(0, Len(allTracks) - ringWidth)
      newOffset == Max2(0, Min2(trackOffset + delta, maxOffset))
  IN /\ opsLeft > 0
     /\ opsLeft' = opsLeft - 1
     /\ IF newOffset # trackOffset
        THEN setOffset(newOffset, "navigateRing") /\ lastRun' = NoRun
        ELSE NoMove /\ lastRun' = Stayed("navigateRing", direction)

\* followTrackIndex, lines 1334-1350, to the await of setOffset, as the
\* selected_track listener calls it (lines 234-241; the rest of that listener
\* touches only the selected-track fields, which this module does not hold).
FollowTrackIndex(trackIndex) ==
  LET maxOffset == Max2(0, Len(allTracks) - ringWidth)
      newOffset == Max2(0, Min2(trackIndex, maxOffset))
      visible == trackIndex >= trackOffset /\ trackIndex < trackOffset + ringWidth
  IN /\ opsLeft > 0
     /\ Listening(KeySelectedTrack)
     /\ opsLeft' = opsLeft - 1
     /\ lastRun' = NoRun
     /\ IF trackIndex < 0 \/ trackIndex >= Len(allTracks) \/ visible
        THEN NoMove
        ELSE setOffset(newOffset, "follow")

\* The `tracks` listener, lines 155-158: the DAW delivers its new list and
\* the sync starts in the same segment.
TracksEvent(tracks) ==
  /\ opsLeft > 0
  /\ Listening(KeyTracks)
  /\ tracks # allTracks
  /\ allTracks' = tracks
  /\ opsLeft' = opsLeft - 1
  /\ offsetOp' = "none"
  /\ ApplySync(SyncEnter(Mgr, NewRun("tracks"), tracks, trackOffset, ringWidth),
               {})
  /\ UNCHANGED <<ringWidth, trackOffset>>
  /\ RingFrame

\* ------------------------------------------------- a suspended run resumes
SyncFrame ==
  /\ UNCHANGED <<allTracks, ringWidth, trackOffset, opsLeft, offsetOp>>
  /\ RingFrame

\* setSessionOffset returns: syncRingListeners starts (lines 268, 278).
SessionReturn(r) ==
  /\ r.pc = "session"
  /\ ApplySync(SyncEnter(Mgr, r, allTracks, trackOffset, ringWidth), {r})
  /\ SyncFrame

UnsubReturn(r) ==
  /\ r.pc = "unsub"
  /\ ApplySync(UnsubResume(Mgr, r), {r})
  /\ SyncFrame

BuildReturn(r) ==
  /\ r.pc = "build"
  /\ ApplySync(BuildResume(Mgr, r), {r})
  /\ SyncFrame

ExistingReturn(r) ==
  /\ r.pc = "existing"
  /\ ApplySync(ExistingResume(Mgr, r), {r})
  /\ SyncFrame

\* Bookkeeping: the handler whose RPC was rejected in the last step.
Failed(r) ==
  [op |-> None, cmd |-> "failed", by |-> r.op, newIds |-> r.newIds,
   track |-> Head(r.added), stage |-> r.stage, reg |-> r.reg]

\* The RPC a build awaits (a get or an addListener of lines 1022-1199) is
\* rejected.  Neither subscribeRingTrack nor syncRingListeners nor setOffset,
\* setupRing and navigateRing has a try around the await: the rejection ends
\* the handler where it is.
BuildFailure(r) ==
  /\ r.pc = "build"
  /\ runs' = runs \ {r}
  /\ lastRun' = Failed(r)
  /\ UNCHANGED <<windowVars, listeners, writes, sink, syncedAt,
                 selectedTrackIndex>>
  /\ SyncFrame

\* ------------------------------------------ resubscribeSendsForAllRingTracks
\* lines 1220-1263.  The loop walks the array that currentRingTrackIds held
\* when the handler started (r.added is what is left of it).
ResubSuspended(m, r) == [m |-> m, run |-> r, fin |-> FALSE]

\* line 1262, after the loop.
ResubFinish(m, r) == [m |-> m, run |-> r, fin |-> TRUE]

RECURSIVE ResubLoop(_, _)
\* The same without the test for the master track.
ResubTrackMasterToo(m, r) ==
  LET id == Head(r.added)
  IN IF id \notin SeqToSet(allTracks)
     THEN ResubLoop(m, [r EXCEPT !.added = Tail(@)])
     ELSE ResubSuspended(m, [r EXCEPT !.pc = "rsGet"])

\* lines 1226-1230, after removeByPrefix: master and unknown tracks are
\* skipped; for the others the mixer and its sends are fetched.
ResubTrack(m, r) ==
  LET id == Head(r.added)
  IN IF id \notin SeqToSet(allTracks) \/ isMaster(id)
     THEN ResubLoop(m, [r EXCEPT !.added = Tail(@)])
     ELSE ResubSuspended(m, [r EXCEPT !.pc = "rsGet"])

\* lines 1221-1223: the head of the loop, to the next await.
ResubLoop(m, r) ==
  IF r.added = <<>> THEN ResubFinish(m, r)
  ELSE LET id == Head(r.added)
           pend == PrefixMatches(m.subs, RingKey(id, <<"send">>), AllRingKeys)
       IN IF pend = <<>> THEN ResubTrack(m, r)
          ELSE ResubSuspended(m, [r EXCEPT !.pc = "rsUnsub", !.pending = pend,
                 !.inv = @ \cup { pend[i].key : i \in 1 .. Len(pend) }])

\* One unsubscribe of removeByPrefix returns: remove(key), lines 45-49.
ResubUnsubResume(m, r) ==
  LET h == Head(r.pending)
      m2 == [m EXCEPT !.ls = @ \ {h.thunk}, !.subs = MapDelete(@, h.key)]
      r2 == [r EXCEPT !.pending = Tail(@)]
  IN IF r2.pending # <<>> THEN ResubSuspended(m2, r2) ELSE ResubTrack(m2, r2)

\* The for loop over the sends, lines 1245-1258: the next addListener, or
\* the next track.
ResubAdvance(m, r) ==
  IF r.stage >= r.ns
  THEN ResubLoop(m, [r EXCEPT !.added = Tail(@), !.stage = 0])
  ELSE ResubSuspended(m, [r EXCEPT !.pc = "rsAdd", !.stage = @ + 1])

\* mixer.get("sends") returns: lines 1231-1241.
ResubGetResume(m, r) ==
  LET id == Head(r.added)
      n == session.returns
      m2 == [m EXCEPT
               !.st = IF id \in DOMAIN m.st
                      THEN [m.st EXCEPT ![id].sends = n] ELSE m.st,
               !.mc = IF id \in DOMAIN m.mc
                      THEN [m.mc EXCEPT ![id].sends = n] ELSE m.mc]
  IN ResubAdvance(m2, [r EXCEPT !.ns = n, !.stage = 0])

\* send.addListener returns: ringSubs.add, lines 1247-1257.
ResubAddResume(m, r) ==
  LET id == Head(r.added)
      key == RingKey(id, SendProp(r.stage - 1))
      t == FreshThunk(key, id)
  IN IF key \in DOMAIN m.subs
     THEN ResubSuspended([m EXCEPT !.ls = @ \cup {t}],
                         [r EXCEPT !.pc = "rsExisting", !.held = t,
                                   !.existing = m.subs[key],
                                   !.reg = @ \cup {key}, !.inv = @ \cup {key}])
     ELSE ResubAdvance([m EXCEPT !.ls = @ \cup {t}, !.subs = MapSet(@, key, t)],
                       [r EXCEPT !.reg = @ \cup {key}])

\* SubscriptionGroup.add after its await, line 35.
ResubExistingResume(m, r) ==
  ResubAdvance([m EXCEPT !.ls = @ \ {r.existing},
                         !.subs = MapSet(@, r.held.key, r.held)],
               [r EXCEPT !.held = NoThunk, !.existing = NoThunk])

\* Bookkeeping: a re-subscription has ended in the last step.
Resubscribed(r) ==
  [op |-> None, cmd |-> "return_tracks", walked |-> r.oldIds, sends |-> r.ns]

\* The state after one segment of a re-subscription.
ApplyResub(res, old) ==
  /\ trackStates' = res.m.st
  /\ mixerCache' = res.m.mc
  /\ ringSubs' = res.m.subs
  /\ listeners' = res.m.ls
  /\ runs' = (runs \ old) \cup (IF res.fin THEN {} ELSE {res.run})
  /\ lastRun' = IF res.fin THEN Resubscribed(res.run) ELSE NoRun
  /\ sink' = IF res.fin THEN Emit(sendFullSync(res.m)) ELSE sink

ResubFrame ==
  UNCHANGED <<allTracks, masterTrack, ringWidth, trackOffset,
              currentRingTrackIds, ringIndexByTrackId, globalSubs,
              activeProperty, paramVars, dawMute, dawParam, writes, inbox,
              phase, calls, observe, syncedAt, offsetOp, focusVars>>

\* The return_tracks listener, lines 165-167: the DAW now has `n` return
\* tracks, so every track has `n` sends.
ReturnTracksEvent(n) ==
  /\ opsLeft > 0
  /\ Listening(KeyReturnTracks)
  /\ n # session.returns
  /\ session' = [session EXCEPT !.returns = n]
  /\ opsLeft' = opsLeft - 1
  /\ ApplyResub(ResubLoop(Mgr, [NewRun("return_tracks") EXCEPT
                                  !.added = currentRingTrackIds,
                                  !.oldIds = SeqToSet(currentRingTrackIds)]),
                {})
  /\ ResubFrame

ResubUnsubReturn(r) ==
  /\ r.pc = "rsUnsub"
  /\ ApplyResub(ResubUnsubResume(Mgr, r), {r})
  /\ UNCHANGED <<session, opsLeft>>
  /\ ResubFrame

ResubGetReturn(r) ==
  /\ r.pc = "rsGet"
  /\ ApplyResub(ResubGetResume(Mgr, r), {r})
  /\ UNCHANGED <<session, opsLeft>>
  /\ ResubFrame

ResubAddReturn(r) ==
  /\ r.pc = "rsAdd"
  /\ ApplyResub(ResubAddResume(Mgr, r), {r})
  /\ UNCHANGED <<session, opsLeft>>
  /\ ResubFrame

ResubExistingReturn(r) ==
  /\ r.pc = "rsExisting"
  /\ ApplyResub(ResubExistingResume(Mgr, r), {r})
  /\ UNCHANGED <<session, opsLeft>>
  /\ ResubFrame

\* ------------------------------------------------ fire-and-forget commands
\* A command as the check records it: the object it wrote to (NoId when it
\* wrote nothing) and what held when it was called.
MuteSettled(id) ==
  /\ \A i \in 1 .. Len(writes) : ~(writes[i].prop = "mute" /\ writes[i].obj = id)
  /\ \A i \in 1 .. Len(inbox) : ~(inbox[i].kind = "mute" /\ inbox[i].id = id)
CallRec(op, k, w) ==
  [op |-> op, k |-> k,
   target |-> IF w = <<>> THEN NoId ELSE w[1].obj,
   selected |-> selectedParam, switching |-> selectedParamSwitching,
   fetching |-> \E r \in runs : r.pc = "fetch",
   settled |-> IF w = <<>> THEN TRUE ELSE MuteSettled(w[1].obj),
   fetched |-> NoFetch, emitted |-> <<>>,
   failed |-> FALSE, after |-> [sel |-> NoId, sw |-> FALSE]]

\* What a command that only writes to the DAW leaves alone.
CommandFrame ==
  UNCHANGED <<ringVars, globalSubs, paramVars, session, dawMute, dawParam,
              listeners, inbox, runs, phase, sink, bookVars, focusVars>>

\* toggleMute, lines 332-338: the write it sends, if any.
toggleMute(ringIndex) ==
  LET track == getTrackAtRingIndex(allTracks, trackOffset, ringIndex)
  IN IF track = NoId \/ isMaster(track) THEN <<>>
     ELSE IF track \notin DOMAIN trackStates THEN <<>>
     ELSE << [obj |-> track, prop |-> "mute",
              value |-> ~trackStates[track].mute] >>

\* toggleMute that also flips the cached value at once.
ToggleMuteEager(ringIndex) ==
  /\ opsLeft > 0
  /\ opsLeft' = opsLeft - 1
  /\ writes' = writes \o toggleMute(ringIndex)
  /\ calls' = Append(calls, CallRec("toggleMute", ringIndex, toggleMute(ringIndex)))
  /\ trackStates' =
       IF toggleMute(ringIndex) = <<>> THEN trackStates
       ELSE [trackStates EXCEPT ![toggleMute(ringIndex)[1].obj].mute =
                                  toggleMute(ringIndex)[1].value]
  /\ UNCHANGED <<allTracks, masterTrack, ringWidth, trackOffset,
                 currentRingTrackIds, ringIndexByTrackId, mixerCache, ringSubs,
                 activeProperty, globalSubs, paramVars, session, dawMute,
                 dawParam, listeners, inbox, runs, phase, sink, bookVars,
                 focusVars>>

ToggleMute(ringIndex) ==
  /\ opsLeft > 0
  /\ opsLeft' = opsLeft - 1
  /\ writes' = writes \o toggleMute(ringIndex)
  /\ calls' = Append(calls, CallRec("toggleMute", ringIndex, toggleMute(ringIndex)))
  /\ UNCHANGED activeProperty
  /\ CommandFrame

\* setVolume, lines 368-376: the write it sends, if any.
setVolume(ringIndex, value) ==
  LET track == getTrackAtRingIndex(allTracks, trackOffset, ringIndex)
  IN IF track = NoId THEN <<>>
     ELSE IF track \in DOMAIN trackStates /\ trackStates[track].isMidi THEN <<>>
     ELSE IF track \notin DOMAIN mixerCache THEN <<>>
     ELSE << [obj |-> track, prop |-> "volume", value |-> value] >>

\* toggleSolo, lines 344-350.
toggleSolo(ringIndex) ==
  LET track == getTrackAtRingIndex(allTracks, trackOffset, ringIndex)
  IN IF track = NoId \/ isMaster(track) THEN <<>>
     ELSE IF track \notin DOMAIN trackStates THEN <<>>
     ELSE << [obj |-> track, prop |-> "solo",
              value |-> ~trackStates[track].solo] >>

\* toggleArm, lines 356-362.
toggleArm(ringIndex) ==
  LET track == getTrackAtRingIndex(allTracks, trackOffset, ringIndex)
  IN IF track = NoId THEN <<>>
     ELSE IF track \notin DOMAIN trackStates
             \/ ~trackStates[track].canBeArmed THEN <<>>
     ELSE << [obj |-> track, prop |-> "arm",
              value |-> ~trackStates[track].arm] >>

\* setPanning, lines 382-390.
setPanning(ringIndex, value) ==
  LET track == getTrackAtRingIndex(allTracks, trackOffset, ringIndex)
  IN IF track = NoId THEN <<>>
     ELSE IF track \in DOMAIN trackStates /\ trackStates[track].isMidi THEN <<>>
     ELSE IF track \notin DOMAIN mixerCache THEN <<>>
     ELSE << [obj |-> track, prop |-> "panning", value |-> value] >>

\* parseInt(property.slice(5), 10) of the properties tried, as a sequence
\* holding the number; NaN, the parse of a text without leading digits, is
\* the empty one.
NaN == <<>>
ActiveProperties ==
  {"volume", "panning", "send:0", "send:7", "send:x", "selected_parameter"}
IsSendProperty(property) ==
  property \in {"send:0", "send:7", "send:x", "send:-1"}
ParseSendIndex(property) ==
  CASE property = "send:0" -> <<0>>
    [] property = "send:7" -> <<7>>
    [] property = "send:-1" -> <<-1>>
    [] OTHER -> NaN
\* What a read outside an array gives.
Undefined == <<"undefined">>

\* setSend, lines 396-402; cached.sends[sendIndex] is undefined outside
\* 0 .. length - 1.
setSend(ringIndex, sendIndex, value) ==
  LET track == getTrackAtRingIndex(allTracks, trackOffset, ringIndex)
  IN IF track = NoId THEN <<>>
     ELSE IF track \notin DOMAIN mixerCache THEN <<>>
     ELSE IF ~(sendIndex >= 0 /\ sendIndex < mixerCache[track].sends) THEN <<>>
     ELSE << [obj |-> track, prop |-> "send", si |-> sendIndex,
              value |-> value] >>

\* adjustSelectedParameter without the guard on selectedParamSwitching.
adjustSelectedParameterUnguarded(delta, stepSize) ==
  LET range == selectedParamMax - selectedParamMin
      step == delta * stepSize * range
      newVal == Max2(selectedParamMin,
                     Min2(selectedParamMax, selectedParamValue + step))
  IN IF selectedParam = NoId THEN <<>>
     ELSE IF range = 0 THEN <<>>
     ELSE << [obj |-> selectedParam, prop |-> "value", value |-> newVal] >>

\* adjustSelectedParameter, lines 688-709.
adjustSelectedParameter(delta, stepSize) ==
  LET range == selectedParamMax - selectedParamMin
      step == delta * stepSize * range
      newVal == Max2(selectedParamMin,
                     Min2(selectedParamMax, selectedParamValue + step))
  IN IF selectedParam = NoId \/ selectedParamSwitching THEN <<>>
     ELSE IF range = 0 THEN <<>>
     ELSE << [obj |-> selectedParam, prop |-> "value", value |-> newVal] >>

\* resetSelectedParameter, lines 714-727.
resetSelectedParameter ==
  LET value == Max2(selectedParamMin,
                    Min2(selectedParamMax, selectedParamDefault))
  IN IF selectedParam = NoId \/ selectedParamSwitching THEN <<>>
     ELSE << [obj |-> selectedParam, prop |-> "value", value |-> value] >>

\* setActivePropertyValue, lines 501-530.  The raw values tried are
\* multiples of 255 after clamping, so rawValue / 255 is exact in integers.
setActivePropertyValue(ringIndex, rawValue) ==
  LET clamped == Max2(0, Min2(255, rawValue))
      value == selectedParamMin
               + (clamped * (selectedParamMax - selectedParamMin)) \div 255
  IN IF activeProperty = "selected_parameter"
     THEN IF selectedParam # NoId /\ ~selectedParamSwitching
          THEN << [obj |-> selectedParam, prop |-> "value", value |-> value] >>
          ELSE <<>>
     ELSE IF activeProperty = "volume" THEN setVolume(ringIndex, clamped \div 255)
     ELSE IF activeProperty = "panning"
     THEN setPanning(ringIndex, (clamped \div 255) * 2 - 1)
     ELSE IF IsSendProperty(activeProperty)
             /\ ParseSendIndex(activeProperty) # NaN
     THEN setSend(ringIndex, ParseSendIndex(activeProperty)[1], clamped \div 255)
     ELSE <<>>

\* An adjustment whose panning step is not doubled.
adjustActivePropertyValuePlainStep(ringIndex, delta, stepSize) ==
  LET track == getTrackAtRingIndex(allTracks, trackOffset, ringIndex)
  IN IF activeProperty = "selected_parameter"
     THEN adjustSelectedParameter(delta, stepSize)
     ELSE IF track = NoId \/ track \notin DOMAIN trackStates THEN <<>>
     ELSE IF activeProperty = "volume"
     THEN setVolume(ringIndex,
            Max2(0, Min2(1, trackStates[track].volume + delta * stepSize)))
     ELSE IF activeProperty = "panning"
     THEN setPanning(ringIndex,
            Max2(-1, Min2(1, trackStates[track].panning + delta * stepSize)))
     ELSE IF IsSendProperty(activeProperty)
             /\ ParseSendIndex(activeProperty) # NaN
             /\ ParseSendIndex(activeProperty)[1] < trackStates[track].sends
     THEN setSend(ringIndex, ParseSendIndex(activeProperty)[1],
            Max2(0, Min2(1, trackStates[track].sendv + delta * stepSize)))
     ELSE <<>>

\* adjustActivePropertyValue, lines 548-587.
adjustActivePropertyValue(ringIndex, delta, stepSize) ==
  LET track == getTrackAtRingIndex(allTracks, trackOffset, ringIndex)
  IN IF activeProperty = "selected_parameter"
     THEN adjustSelectedParameter(delta, stepSize)
     ELSE IF track = NoId \/ track \notin DOMAIN trackStates THEN <<>>
     ELSE IF activeProperty = "volume"
     THEN setVolume(ringIndex,
            Max2(0, Min2(1, trackStates[track].volume + delta * stepSize)))
     ELSE IF activeProperty = "panning"
     THEN setPanning(ringIndex,
            Max2(-1, Min2(1, trackStates[track].panning + delta * stepSize * 2)))
     ELSE IF IsSendProperty(activeProperty)
             /\ ParseSendIndex(activeProperty) # NaN
             /\ ParseSendIndex(activeProperty)[1] < trackStates[track].sends
     THEN setSend(ringIndex, ParseSendIndex(activeProperty)[1],
            Max2(0, Min2(1, trackStates[track].sendv + delta * stepSize)))
     ELSE <<>>

\* resetActivePropertyValue, lines 737-753; the volume default 0.85 is the
\* pair <<17, 20>>.
resetActivePropertyValue(ringIndex) ==
  IF activeProperty = "selected_parameter" THEN resetSelectedParameter
  ELSE IF activeProperty = "volume" THEN setVolume(ringIndex, <<17, 20>>)
  ELSE IF activeProperty = "panning" THEN setPanning(ringIndex, 0)
  ELSE IF IsSendProperty(activeProperty)
          /\ ParseSendIndex(activeProperty) # NaN
  THEN setSend(ringIndex, ParseSendIndex(activeProperty)[1], 0)
  ELSE <<>>

\* A command that only writes to the DAW is called.
Command(op, k, w) ==
  /\ opsLeft > 0
  /\ opsLeft' = opsLeft - 1
  /\ writes' = writes \o w
  /\ calls' = Append(calls, CallRec(op, k, w))
  /\ UNCHANGED activeProperty
  /\ CommandFrame

AdjustSelectedParameter(delta, stepSize) ==
  Command("adjustSelectedParameter", 0, adjustSelectedParameter(delta, stepSize))
ResetSelectedParameter ==
  Command("resetSelectedParameter", 0, resetSelectedParameter)
SetActivePropertyValue(ringIndex, rawValue) ==
  Command("setActivePropertyValue", ringIndex,
          setActivePropertyValue(ringIndex, rawValue))
AdjustActivePropertyValue(ringIndex, delta, stepSize) ==
  Command("adjustActivePropertyValue", ringIndex,
          adjustActivePropertyValue(ringIndex, delta, stepSize))
ResetActivePropertyValue(ringIndex) ==
  Command("resetActivePropertyValue", ringIndex,
          resetActivePropertyValue(ringIndex))
ToggleSolo(ringIndex) == Command("toggleSolo", ringIndex, toggleSolo(ringIndex))
ToggleArm(ringIndex) == Command("toggleArm", ringIndex, toggleArm(ringIndex))
SetVolume(ringIndex, value) ==
  Command("setVolume", ringIndex, setVolume(ringIndex, value))
SetPanning(ringIndex, value) ==
  Command("setPanning", ringIndex, setPanning(ringIndex, value))
SetSend(ringIndex, sendIndex, value) ==
  Command("setSend", ringIndex, setSend(ringIndex, sendIndex, value))
SelectTrackInRing(ringIndex) ==
  Command("selectTrackInRing", ringIndex, selectTrackInRing(ringIndex))

\* The RT_PARAM event for a parameter state; nv is the pair (numerator,
\* denominator) of (v - min) / range, and 0 when the range is 0.
ParamEvent(name, v, min, max) ==
  [evt |-> "RT_PARAM", name |-> name, v |-> v, min |-> min, max |-> max,
   nv |-> IF max - min # 0 THEN <<v - min, max - min>> ELSE <<0, 1>>]
BlankParamEvent == ParamEvent(NoId, 0, 0, 1)

\* sendActivePropertyState, lines 428-486: the events it emits.
sendActivePropertyState(property) ==
  LET resident(id) == id \in DOMAIN trackStates
      ids == SelectSeq(currentRingTrackIds, resident)
      audio(id) == ~trackStates[id].isMidi
      si == ParseSendIndex(property)
      hasSend(id) == si # NaN /\ si[1] < trackStates[id].sends
      shown == IF property \in {"volume", "panning"} THEN SelectSeq(ids, audio)
               ELSE IF IsSendProperty(property) THEN SelectSeq(ids, hasSend)
               ELSE <<>>
      i(id) == IF id \in DOMAIN ringIndexByTrackId
               THEN ringIndexByTrackId[id] ELSE 0
  IN IF property = "selected_parameter"
     THEN IF selectedParam # NoId
          THEN << ParamEvent(selectedParamName, selectedParamValue,
                             selectedParamMin, selectedParamMax) >>
          ELSE << BlankParamEvent >>
     ELSE [n \in 1 .. Len(shown) |->
             IF property = "volume"
             THEN [evt |-> "RT_VOL", i |-> i(shown[n]),
                   v |-> trackStates[shown[n]].volume]
             ELSE IF property = "panning"
             THEN [evt |-> "RT_PAN", i |-> i(shown[n]),
                   v |-> trackStates[shown[n]].panning]
             ELSE [evt |-> "RT_SEND", i |-> i(shown[n]), si |-> si[1],
                   v |-> IF si[1] >= 0 THEN trackStates[shown[n]].sendv
                         ELSE Undefined]]

\* setActiveProperty, lines 419-422.
SetActiveProperty(property) ==
  /\ opsLeft > 0
  /\ opsLeft' = opsLeft - 1
  /\ activeProperty' = property
  /\ sink' = Emit(sendActivePropertyState(property))
  /\ UNCHANGED <<ringVars, globalSubs, paramVars, dawVars, runs, phase, calls,
                 bookVars, focusVars>>

\* ------------------------------------------------------------------ the DAW
\* The notifications a change of `prop` on `obj` sends: one per listener
\* registered on it.
Notify(kind, key, obj, v) ==
  LET n == Cardinality({ t \in listeners : t.key = key /\ t.on = obj })
  IN [i \in 1 .. n |-> [kind |-> kind, id |-> obj, v |-> v]]

\* The DAW applies the oldest write.  A write that changes nothing notifies
\* nobody.
DawApply ==
  /\ writes # <<>>
  /\ LET w == Head(writes)
     IN /\ w.prop \in {"mute", "value"}
        /\ writes' = Tail(writes)
        /\ IF w.prop = "mute"
           THEN /\ dawMute' = [dawMute EXCEPT ![w.obj] = w.value]
                /\ inbox' = inbox \o
                     (IF dawMute[w.obj] # w.value
                      THEN Notify("mute", RingKey(w.obj, <<"mute">>), w.obj, w.value)
                      ELSE <<>>)
                /\ UNCHANGED dawParam
           ELSE /\ dawParam' = [dawParam EXCEPT ![w.obj] = w.value]
                /\ inbox' = inbox \o
                     (IF dawParam[w.obj] # w.value
                      THEN Notify("value", KeyParamValue, w.obj, w.value)
                      ELSE <<>>)
                /\ UNCHANGED dawMute
  /\ UNCHANGED <<ringVars, globalSubs, activeProperty, paramVars, session,
                 listeners, runs, phase, sink, opsLeft, calls, bookVars,
                 focusVars>>

\* The DAW applies the oldest write when it is one to a mixer parameter: the
\* volume, the panning or a send of a track.
MixerProps == {"volume", "panning", "send"}
MixerKey(w) ==
  RingKey(w.obj, IF w.prop = "send" THEN SendProp(w.si) ELSE << w.prop >>)
MixerValue(sess, w) ==
  CASE w.prop = "volume" -> sess.volume[w.obj]
    [] w.prop = "panning" -> sess.panning[w.obj]
    [] OTHER -> sess.sendv
MixerNotes(w) ==
  [n \in 1 .. Len(Notify(w.prop, MixerKey(w), w.obj, w.value)) |->
     [kind |-> w.prop, id |-> w.obj, v |-> w.value,
      si |-> IF w.prop = "send" THEN w.si ELSE -1]]
DawApplyMixer ==
  /\ writes # <<>>
  /\ LET w == Head(writes)
     IN /\ w.prop \in MixerProps
        /\ writes' = Tail(writes)
        /\ session' =
             CASE w.prop = "volume" -> [session EXCEPT !.volume[w.obj] = w.value]
               [] w.prop = "panning" ->
                    [session EXCEPT !.panning[w.obj] = w.value]
               [] OTHER -> [session EXCEPT !.sendv = w.value]
        /\ inbox' = inbox \o (IF MixerValue(session, w) # w.value
                              THEN MixerNotes(w) ELSE <<>>)
  /\ UNCHANGED <<ringVars, globalSubs, activeProperty, paramVars, dawMute,
                 dawParam, listeners, runs, phase, sink, opsLeft, calls,
                 bookVars, focusVars>>

\* The volume, panning and send listeners of subscribeRingTrack, lines
\* 1149-1155, 1162-1174 and 1187-1193.
MixerListener(st, e) ==
  IF e.id \notin DOMAIN st THEN st
  ELSE CASE e.kind = "volume" -> [st EXCEPT ![e.id].volume = e.v]
         [] e.kind = "panning" -> [st EXCEPT ![e.id].panning = e.v]
         [] OTHER -> [st EXCEPT ![e.id].sendv = e.v]
MixerListenerEvents(e) ==
  IF e.id \notin DOMAIN ringIndexByTrackId THEN <<>>
  ELSE CASE e.kind = "volume" ->
              << [evt |-> "RT_VOL", i |-> ringIndexByTrackId[e.id], v |-> e.v] >>
         [] e.kind = "panning" ->
              << [evt |-> "RT_PAN", i |-> ringIndexByTrackId[e.id], v |-> e.v] >>
         [] OTHER ->
              << [evt |-> "RT_SEND", i |-> ringIndexByTrackId[e.id],
                  si |-> e.si, v |-> e.v] >>

\* The oldest notification reaches its listener, a mixer listener.
DeliverMixer ==
  /\ inbox # <<>>
  /\ Head(inbox).kind \in MixerProps
  /\ inbox' = Tail(inbox)
  /\ trackStates' = MixerListener(trackStates, Head(inbox))
  /\ sink' = Emit(MixerListenerEvents(Head(inbox)))
  /\ UNCHANGED <<allTracks, masterTrack, ringWidth, trackOffset,
                 currentRingTrackIds, ringIndexByTrackId, mixerCache, ringSubs,
                 globalSubs, activeProperty, paramVars, session, dawMute,
                 dawParam, listeners, writes, runs, phase, opsLeft, calls,
                 bookVars, focusVars>>

\* The user changes the color, the volume or the mute of a track in the DAW,
\* which notifies the listeners on it.  No track is followed as selected
\* where this is used.
UserProps == {"color", "volume", "mute"}
UserSet(id, prop, v) ==
  /\ opsLeft > 0
  /\ opsLeft' = opsLeft - 1
  /\ CASE prop = "color" ->
            /\ session.color[id] # v
            /\ session' = [session EXCEPT !.color[id] = v]
            /\ inbox' = inbox \o Notify("color", RingKey(id, <<"color">>), id, v)
            /\ UNCHANGED dawMute
       [] prop = "volume" ->
            /\ ~DawIsMidi(id) /\ session.volume[id] # v
            /\ session' = [session EXCEPT !.volume[id] = v]
            /\ inbox' = inbox
                 \o MixerNotes([obj |-> id, prop |-> "volume", value |-> v])
            /\ UNCHANGED dawMute
       [] OTHER ->
            /\ id # DawMaster /\ dawMute[id] # (v = 1)
            /\ dawMute' = [dawMute EXCEPT ![id] = (v = 1)]
            /\ inbox' = inbox
                 \o Notify("mute", RingKey(id, <<"mute">>), id, v = 1)
            /\ UNCHANGED session
  /\ UNCHANGED <<ringVars, globalSubs, activeProperty, paramVars, dawParam,
                 listeners, writes, runs, phase, sink, calls, bookVars,
                 focusVars>>

\* The color listener of subscribeRingTrack, lines 1065-1084; the events of
\* the model carry no color.
ColorListener(st, id, value) ==
  IF id \in DOMAIN st THEN [st EXCEPT ![id].color = value] ELSE st
ColorListenerEvents(id) ==
  IF id \in DOMAIN ringIndexByTrackId
  THEN << [evt |-> "RT_INFO", i |-> ringIndexByTrackId[id],
           name |-> IF id \in DOMAIN trackStates
                    THEN trackStates[id].name ELSE NoName,
           isMidi |-> IF id \in DOMAIN trackStates
                      THEN trackStates[id].isMidi ELSE FALSE] >>
  ELSE <<>>

\* The oldest notification reaches its listener, a color listener.
DeliverColor ==
  /\ inbox # <<>>
  /\ Head(inbox).kind = "color"
  /\ inbox' = Tail(inbox)
  /\ trackStates' = ColorListener(trackStates, Head(inbox).id, Head(inbox).v)
  /\ sink' = Emit(ColorListenerEvents(Head(inbox).id))
  /\ UNCHANGED <<allTracks, masterTrack, ringWidth, trackOffset,
                 currentRingTrackIds, ringIndexByTrackId, mixerCache, ringSubs,
                 globalSubs, activeProperty, paramVars, session, dawMute,
                 dawParam, listeners, writes, runs, phase, opsLeft, calls,
                 bookVars, focusVars>>

\* The mute listener of subscribeRingTrack, lines 1092-1098.
MuteListener(st, id, value) ==
  IF id \in DOMAIN st THEN [st EXCEPT ![id].mute = value] ELSE st
\* The mute listener reporting the track's position in the session.
MuteListenerEventsAbsolute(id, value) ==
  IF id \in DOMAIN ringIndexByTrackId
  THEN << [evt |-> "RT_MUTE", i |-> IndexOf(allTracks, id), v |-> value] >>
  ELSE <<>>
MuteListenerEvents(id, value) ==
  IF id \in DOMAIN ringIndexByTrackId
  THEN << [evt |-> "RT_MUTE", i |-> ringIndexByTrackId[id], v |-> value] >>
  ELSE <<>>

\* The value listener of onSelectedParameterChanged, lines 648-659.
ValueListenerEvents(v) ==
  << ParamEvent(selectedParamName, v, selectedParamMin, selectedParamMax) >>

\* The oldest notification reaches its listener.
Deliver ==
  /\ inbox # <<>>
  /\ Head(inbox).kind \in {"mute", "value"}
  /\ LET e == Head(inbox)
     IN /\ inbox' = Tail(inbox)
        /\ IF e.kind = "mute"
           THEN /\ trackStates' = MuteListener(trackStates, e.id, e.v)
                /\ sink' = Emit(MuteListenerEvents(e.id, e.v))
                /\ UNCHANGED selectedParamValue
           ELSE /\ selectedParamValue' = e.v
                /\ sink' = Emit(ValueListenerEvents(e.v))
                /\ UNCHANGED trackStates
  /\ UNCHANGED <<allTracks, masterTrack, ringWidth, trackOffset,
                 currentRingTrackIds, ringIndexByTrackId, mixerCache, ringSubs,
                 globalSubs, activeProperty, selectedParam, selectedParamName,
                 selectedParamMin, selectedParamMax, selectedParamDefault,
                 selectedParamSwitching, session, dawMute, dawParam, listeners,
                 writes, runs, phase, opsLeft, calls, bookVars, focusVars>>

\* ---------------------------------------------- onSelectedParameterChanged
\* What a parameter switch reads and writes; `out` collects what the segment
\* emits.
Par ==
  [sel |-> selectedParam, name |-> selectedParamName,
   value |-> selectedParamValue, min |-> selectedParamMin,
   max |-> selectedParamMax, def |-> selectedParamDefault,
   sw |-> selectedParamSwitching, subs |-> globalSubs, ls |-> listeners,
   out |-> <<>>]

PSuspended(p, r) == [p |-> p, run |-> r, fin |-> FALSE]
PFinish(p, r) == [p |-> p, run |-> r, fin |-> TRUE]

\* lines 605-622 for a null parameter, else lines 624-632 to the await of the
\* five fetches.
PushBody(p, r) ==
  IF r.param = NoId
  THEN PFinish([p EXCEPT !.sel = NoId, !.name = NoId, !.value = 0, !.min = 0,
                         !.max = 1, !.def = 0, !.sw = FALSE,
                         !.out = << BlankParamEvent >>],
               [r EXCEPT !.emitted = << BlankParamEvent >>])
  ELSE PSuspended(p, [r EXCEPT !.pc = "fetch"])

\* lines 598-603: raise the guard and drop the old value listener.
PushEnter(p, r) ==
  LET p1 == [p EXCEPT !.sw = TRUE]
      pend == PrefixMatches(p1.subs, KeyParamValue, AllGlobalKeys)
  IN IF pend = <<>> THEN PushBody(p1, r)
     ELSE PSuspended(p1, [r EXCEPT !.pc = "punsub", !.pending = pend])

\* The unsubscribe of the old value listener returns: remove(key), line 49.
PUnsubResume(p, r) ==
  LET h == Head(r.pending)
      p2 == [p EXCEPT !.ls = @ \ {h.thunk}, !.subs = MapDelete(@, h.key)]
      r2 == [r EXCEPT !.pending = Tail(@)]
  IN IF r2.pending # <<>> THEN PSuspended(p2, r2) ELSE PushBody(p2, r2)

\* The five fetches return (lines 626-643), or one of them fails (lines
\* 672-677).
FetchResume(p, r, ok) ==
  LET q == r.param
      got == [name |-> q, value |-> dawParam[q], min |-> ParamMin[q],
              max |-> ParamMax[q]]
  IN IF ok
     THEN PSuspended([p EXCEPT !.sel = q, !.name = got.name,
                              !.value = got.value, !.min = got.min,
                              !.max = got.max, !.def = ParamDefault[q]],
                     [r EXCEPT !.pc = "listen", !.fetched = got])
     ELSE PFinish([p EXCEPT !.sel = NoId, !.sw = FALSE],
                  [r EXCEPT !.kind = "failed"])

\* lines 662-671 and 675-677: push the fetched state and lower the guard.
PushEmit(p, r) ==
  LET e == ParamEvent(r.fetched.name, r.fetched.value, r.fetched.min,
                      r.fetched.max)
  IN PFinish([p EXCEPT !.out = << e >>, !.sw = FALSE],
             [r EXCEPT !.emitted = << e >>])

\* addListener("value") returns (lines 646-660): globalSubs.add, lines 24-35
\* of SubscriptionGroup.
ListenResume(p, r) ==
  LET t == FreshThunk(KeyParamValue, r.param)
      p1 == [p EXCEPT !.ls = @ \cup {t}]
  IN IF KeyParamValue \in DOMAIN p.subs
     THEN PSuspended(p1, [r EXCEPT !.pc = "pexisting", !.held = t,
                                   !.existing = p.subs[KeyParamValue]])
     ELSE PushEmit([p1 EXCEPT !.subs = MapSet(@, KeyParamValue, t)], r)

\* param.addListener("value") is rejected (line 648): lines 672-677.
ListenFail(p, r) ==
  PFinish([p EXCEPT !.sel = NoId, !.sw = FALSE], [r EXCEPT !.kind = "failed"])

\* SubscriptionGroup.add after its await, line 35.
PExistingResume(p, r) ==
  PushEmit([p EXCEPT !.ls = @ \ {r.existing},
                     !.subs = MapSet(@, KeyParamValue, r.held)],
           [r EXCEPT !.held = NoThunk, !.existing = NoThunk])

\* init() goes on when the switch it awaits is over (line 187).
InitStages ==
  << "master_track", "tracks", "sub:tracks", "sub:return_tracks",
     "sub:selected_parameter", "selected_parameter", "sub:is_playing",
     "sub:record_mode", "sub:selected_track" >>
AfterSwitch(r) ==
  IF r.op = "init" THEN { [r EXCEPT !.pc = "init", !.stage = 7] } ELSE {}

\* The state after one segment of a parameter switch.
ApplyParam(res, old) ==
  /\ selectedParam' = res.p.sel
  /\ selectedParamName' = res.p.name
  /\ selectedParamValue' = res.p.value
  /\ selectedParamMin' = res.p.min
  /\ selectedParamMax' = res.p.max
  /\ selectedParamDefault' = res.p.def
  /\ selectedParamSwitching' = res.p.sw
  /\ globalSubs' = res.p.subs
  /\ listeners' = res.p.ls
  /\ sink' = Emit(res.p.out)
  /\ runs' = (runs \ old)
             \cup (IF res.fin THEN AfterSwitch(res.run) ELSE {res.run})
  /\ calls' = IF res.fin /\ res.run.op # "init"
              THEN Append(calls,
                     [CallRec("selected_parameter", 0, <<>>) EXCEPT
                        !.target = res.run.param,
                        !.fetched = res.run.fetched,
                        !.emitted = res.run.emitted,
                        !.failed = res.run.kind = "failed",
                        !.after = [sel |-> res.p.sel, sw |-> res.p.sw]])
              ELSE calls

ParamFrame ==
  UNCHANGED <<ringVars, activeProperty, session, dawMute, dawParam, writes,
              inbox, phase, bookVars, focusVars>>

\* The selected_parameter listener, lines 174-178: the DAW pushes the
\* parameter the user clicked, or null.
ParamPush(param) ==
  /\ opsLeft > 0
  /\ Listening(KeySelectedParameter)
  /\ opsLeft' = opsLeft - 1
  /\ ApplyParam(PushEnter(Par, [NewRun("selected_parameter") EXCEPT
                                  !.param = param]), {})
  /\ ParamFrame

\* The user selects a parameter in the DAW, or none: the DAW holds it as
\* song.view.selected_parameter and pushes it to the listener of lines
\* 174-178.
SelectParameter(param) ==
  /\ opsLeft > 0
  /\ Listening(KeySelectedParameter)
  /\ session.param # param
  /\ opsLeft' = opsLeft - 1
  /\ session' = [session EXCEPT !.param = param]
  /\ ApplyParam(PushEnter(Par, [NewRun("selected_parameter") EXCEPT
                                  !.param = param]), {})
  /\ UNCHANGED <<ringVars, activeProperty, dawMute, dawParam, writes, inbox,
                 phase, bookVars, focusVars>>

PUnsubReturn(r) ==
  /\ r.pc = "punsub"
  /\ ApplyParam(PUnsubResume(Par, r), {r})
  /\ UNCHANGED opsLeft
  /\ ParamFrame

FetchReturn(r, ok) ==
  /\ r.pc = "fetch"
  /\ ApplyParam(FetchResume(Par, r, ok), {r})
  /\ UNCHANGED opsLeft
  /\ ParamFrame

ListenReturn(r) ==
  /\ r.pc = "listen"
  /\ ApplyParam(ListenResume(Par, r), {r})
  /\ UNCHANGED opsLeft
  /\ ParamFrame

ListenFailure(r) ==
  /\ r.pc = "listen"
  /\ ApplyParam(ListenFail(Par, r), {r})
  /\ UNCHANGED opsLeft
  /\ ParamFrame

PExistingReturn(r) ==
  /\ r.pc = "pexisting"
  /\ ApplyParam(PExistingResume(Par, r), {r})
  /\ UNCHANGED opsLeft
  /\ ParamFrame

\* -------------------------------------------------------------------- init
\* init(), lines 148-249, is called on a new manager.
InitCall ==
  /\ phase' = "init"
  /\ runs' = runs \cup {[NewRun("init") EXCEPT !.pc = "init", !.stage = 1]}
  /\ UNCHANGED <<ringVars, globalSubs, activeProperty, paramVars, dawVars,
                 sink, opsLeft, calls, bookVars, focusVars>>

\* The key an init stage registers.
InitKeyOf(stage) ==
  CASE stage = 3 -> KeyTracks
    [] stage = 4 -> KeyReturnTracks
    [] stage = 5 -> KeySelectedParameter
    [] stage = 7 -> KeyIsPlaying
    [] stage = 8 -> KeyRecordMode
    [] OTHER -> KeySelectedTrack

\* One RPC of init() returns: a get of lines 149-150, or an addListener whose
\* thunk globalSubs.add stores (no key of init() is in the group yet).  The
\* transport state is sent once record_mode is subscribed (lines 222-226).
InitReturn(r) ==
  LET t == FreshThunk(InitKeyOf(r.stage), NoId)
      sub == InitStages[r.stage] \notin {"master_track", "tracks"}
      last == r.stage = Len(InitStages)
  IN /\ r.pc = "init" /\ InitStages[r.stage] # "selected_parameter"
     /\ masterTrack' = IF r.stage = 1 THEN DawMaster ELSE masterTrack
     /\ allTracks' = IF r.stage = 2 THEN session.tracks ELSE allTracks
     /\ listeners' = IF sub THEN listeners \cup {t} ELSE listeners
     /\ globalSubs' = IF sub THEN MapSet(globalSubs, t.key, t) ELSE globalSubs
     /\ sink' = IF r.stage = 8 THEN Emit(<< [evt |-> "RT_TRANSPORT"] >>) ELSE sink
     /\ runs' = (runs \ {r})
                \cup (IF last THEN {} ELSE { [r EXCEPT !.stage = @ + 1] })
     /\ phase' = IF last THEN "ready" ELSE phase
     /\ UNCHANGED <<ringWidth, trackOffset, windowVars, activeProperty,
                    paramVars, session, dawMute, dawParam, writes, inbox,
                    opsLeft, calls, bookVars, focusVars>>

\* The get of the initially selected parameter returns (lines 183-191): the
\* switch to it runs inside init().
InitParamReturn(r) ==
  /\ r.pc = "init" /\ InitStages[r.stage] = "selected_parameter"
  /\ IF session.param # NoId
     THEN ApplyParam(PushEnter(Par, [r EXCEPT !.param = session.param]), {r})
     ELSE /\ runs' = (runs \ {r}) \cup { [r EXCEPT !.stage = @ + 1] }
          /\ UNCHANGED <<paramVars, globalSubs, listeners, sink, calls>>
  /\ UNCHANGED opsLeft
  /\ ParamFrame

\* ------------------------------------------------ the selected_track listener
\* What the handlers of the selected track and of its playing clip read and
\* write; `out` collects what the segment emits.
Foc ==
  [subs |-> globalSubs, ls |-> listeners, name |-> selectedTrackName,
   clip |-> playingClipName, color |-> playingClipColor, out |-> <<>>]
FSuspended(f, r) == [f |-> f, run |-> r, fin |-> FALSE]
FFinish(f, r) == [f |-> f, run |-> r, fin |-> TRUE]

\* The RT_SELECTED of lines 775-782 and 789-796 (the color is not modelled).
SelectedEvent(id, name) ==
  [evt |-> "RT_SELECTED", index |-> selectedTrackIndex,
   ringIndex |-> IF id \in DOMAIN ringIndexByTrackId
                 THEN ringIndexByTrackId[id] ELSE -1,
   name |-> name]
ClipEvent(name, color) ==
  [evt |-> "RT_PLAYING_CLIP", name |-> name, color |-> color]
EmptyClipEvent == ClipEvent(NoName, NoColor)

\* The listeners the two handlers register, in their order: the key and the
\* object listened to.
ListenKey(stage) ==
  CASE stage = 1 -> KeySelName
    [] stage = 2 -> KeySelColor
    [] stage = 3 -> KeyClipSlot
    [] stage = 4 -> KeyClipName
    [] OTHER -> KeyClipColor
ListenOn(r) == IF r.stage <= 3 THEN r.sel ELSE ClipOf(r.sel)

\* A handler awaits addListener (lines 787, 803, 931, 892, 905).
ListenAt(f, r, stage) ==
  FSuspended(f, [r EXCEPT !.pc = "focusListen", !.stage = stage])

\* Bookkeeping: the listeners on a clip's name and color among the entries a
\* removeByPrefix is about to unsubscribe.
PropThunks(pend) ==
  { pend[i].thunk : i \in { j \in 1 .. Len(pend) :
                              pend[j].key \in {KeyClipName, KeyClipColor} } }

\* handleSlotIndex after its removeByPrefix, lines 841-854.
HandleBody(f, r) ==
  IF r.slot < 0
  THEN FFinish([f EXCEPT !.clip = NoName, !.color = NoColor,
                         !.out = @ \o << EmptyClipEvent >>],
               [r EXCEPT !.emitted = @ \o << EmptyClipEvent >>,
                         !.torn = r.prior \cap f.ls = {}])
  ELSE FSuspended(f, [r EXCEPT !.pc = "clipGet"])

\* handleSlotIndex, line 839, to its first await.
HandleEnter(f, r) ==
  LET pend == PrefixMatches(f.subs, <<"selected_track_clip", ":", "props">>,
                            AllGlobalKeys)
  IN IF pend = <<>> THEN HandleBody(f, r)
     ELSE FSuspended(f, [r EXCEPT !.pc = "propsUnsub", !.pending = pend,
                          !.inv = @ \cup { pend[i].key : i \in 1 .. Len(pend) },
                          !.prior = @ \cup PropThunks(pend)])

\* subscribePlayingClip after its removeByPrefix, lines 834-835, to the await
\* of addListener("playing_slot_index").
ClipBody(f, r) ==
  ListenAt([f EXCEPT !.clip = NoName, !.color = NoColor], r, 3)

\* subscribePlayingClip, line 833, to its first await.
ClipEnter(f, r) ==
  LET pend == PrefixMatches(f.subs, <<"selected_track_clip">>, AllGlobalKeys)
  IN IF pend = <<>> THEN ClipBody(f, r)
     ELSE FSuspended(f, [r EXCEPT !.pc = "clipUnsub", !.pending = pend,
                          !.prior = @ \cup PropThunks(pend)])

\* One unsubscribe of a removeByPrefix returns: remove(key), lines 45-49
\* of SubscriptionGroup; after the last one the handler goes on.
FocusUnsubResume(f, r) ==
  LET h == Head(r.pending)
      f2 == [f EXCEPT !.ls = @ \ {h.thunk}, !.subs = MapDelete(@, h.key)]
      r2 == [r EXCEPT !.pending = Tail(@)]
  IN IF r2.pending # <<>> THEN FSuspended(f2, r2)
     ELSE IF r.pc = "selUnsub" THEN FSuspended(f2, [r2 EXCEPT !.pc = "selName"])
     ELSE IF r.pc = "clipUnsub" THEN ClipBody(f2, r2)
     ELSE HandleBody(f2, r2)

\* track.get("name") returns: lines 769-782, to the await of addListener.
SelNameResume(f, r) ==
  LET e == SelectedEvent(r.sel, dawName[r.sel])
  IN ListenAt([f EXCEPT !.name = dawName[r.sel], !.out = @ \o << e >>],
              [r EXCEPT !.emitted = @ \o << e >>], 1)

\* After globalSubs.add of a stage has returned.
AfterListen(f, r) ==
  CASE r.stage = 1 -> ListenAt(f, r, 2)
    [] r.stage = 2 -> ClipEnter(f, r)
    [] r.stage = 3 -> FSuspended(f, [r EXCEPT !.pc = "clipSlot"])
    [] r.stage = 4 -> ListenAt(f, r, 5)
    [] OTHER -> FFinish(f, r)

\* addListener returns and globalSubs.add runs to its await or its end.
FocusListenResume(f, r) ==
  LET key == ListenKey(r.stage)
      t == FreshThunk(key, ListenOn(r))
  IN IF key \in DOMAIN f.subs
     THEN FSuspended([f EXCEPT !.ls = @ \cup {t}],
                     [r EXCEPT !.pc = "focusExisting", !.held = t,
                               !.existing = f.subs[key],
                               !.reg = @ \cup {key}])
     ELSE AfterListen([f EXCEPT !.ls = @ \cup {t}, !.subs = MapSet(@, key, t)],
                      [r EXCEPT !.reg = @ \cup {key}])

\* SubscriptionGroup.add after its await, line 35.
FocusExistingResume(f, r) ==
  AfterListen([f EXCEPT !.ls = @ \ {r.existing},
                        !.subs = MapSet(@, r.held.key, r.held)],
              [r EXCEPT !.held = NoThunk, !.existing = NoThunk])

\* track.get("playing_slot_index") returns, lines 941-942.
ClipSlotResume(f, r) == HandleEnter(f, [r EXCEPT !.slot = dawSlot[r.sel]])

\* clip_slots and the slot's clip have been fetched, lines 854-868.
ClipGetResume(f, r) ==
  LET slots == SlotClips(session, r.sel)
  IN IF r.slot >= Len(slots) THEN FFinish(f, r)
     ELSE IF slots[r.slot + 1] = NoId
     THEN FFinish([f EXCEPT !.clip = NoName, !.color = NoColor,
                            !.out = @ \o << EmptyClipEvent >>],
                  [r EXCEPT !.emitted = @ \o << EmptyClipEvent >>,
                            !.torn = r.prior \cap f.ls = {}])
     ELSE FSuspended(f, [r EXCEPT !.pc = "clipFetch"])

\* The clip's name and color have been fetched, lines 870-892.
ClipFetchResume(f, r) ==
  LET e == ClipEvent(dawName[ClipOf(r.sel)], ClipColor)
  IN ListenAt([f EXCEPT !.clip = dawName[ClipOf(r.sel)], !.color = ClipColor,
                        !.out = @ \o << e >>],
              [r EXCEPT !.emitted = @ \o << e >>,
                        !.torn = r.prior \cap f.ls = {}], 4)

\* Bookkeeping: a handler of the selected track or of a playing slot that has
\* run to its end, with what it emitted, the keys it unsubscribed and
\* registered, the clip listeners it found and whether they were all gone
\* when it emitted.
FocusRec(r) ==
  [op |-> r.op, k |-> r.selIndex, target |-> r.sel, slot |-> r.slot,
   emitted |-> r.emitted, from |-> r.from, offset |-> trackOffset,
   kind |-> r.kind, inv |-> r.inv, reg |-> r.reg, prior |-> r.prior,
   torn |-> r.torn]

ApplyFocus(res, old) ==
  /\ globalSubs' = res.f.subs
  /\ listeners' = res.f.ls
  /\ selectedTrackName' = res.f.name
  /\ playingClipName' = res.f.clip
  /\ playingClipColor' = res.f.color
  /\ sink' = Emit(res.f.out)
  /\ runs' = (runs \ old) \cup (IF res.fin THEN {} ELSE {res.run})
  /\ calls' = IF res.fin THEN Append(calls, FocusRec(res.run)) ELSE calls

FocusFrame ==
  UNCHANGED <<ringVars, activeProperty, paramVars, session, dawMute, dawParam,
              writes, phase, bookVars, dawName, dawSlot>>

\* A selected_track listener whose follow does not clamp the new offset.
SelectedTrackEventUnclamped(id) ==
  LET trackIndex == IndexOf(allTracks, id)
      maxOffset == Max2(0, Len(allTracks) - ringWidth)
      newOffset == trackIndex
      visible == trackIndex >= trackOffset /\ trackIndex < trackOffset + ringWidth
      r == [NewRun("selected_track") EXCEPT
              !.sel = id, !.selIndex = trackIndex,
              !.from = <<trackOffset, ringWidth, Len(allTracks)>>]
  IN /\ opsLeft > 0
     /\ Listening(KeySelectedTrack)
     /\ opsLeft' = opsLeft - 1
     /\ IF trackIndex # -1 /\ ~visible
        THEN \* followTrackIndex, lines 1347-1349
             /\ trackOffset' = newOffset
             /\ runs' = runs \cup {r}
             /\ offsetOp' = "follow"
             /\ lastRun' = NoRun
             /\ UNCHANGED <<allTracks, masterTrack, ringWidth, windowVars,
                            selectedTrackIndex, observe, syncedAt>>
        ELSE /\ selectedTrackIndex' = trackIndex
             /\ runs' = runs \cup {SelectedEnter(r)}
             /\ UNCHANGED <<ringVars, bookVars>>
     /\ UNCHANGED <<globalSubs, activeProperty, paramVars, dawVars, phase, sink,
                    calls, selectedTrackName, clipVars, dawName, dawSlot>>

\* The selected_track listener, lines 234-246, to its first await: the DAW
\* pushes the track the user selected.
SelectedTrackPush(id) ==
  LET trackIndex == IndexOf(allTracks, id)
      maxOffset == Max2(0, Len(allTracks) - ringWidth)
      newOffset == Max2(0, Min2(trackIndex, maxOffset))
      visible == trackIndex >= trackOffset /\ trackIndex < trackOffset + ringWidth
      r == [NewRun("selected_track") EXCEPT
              !.sel = id, !.selIndex = trackIndex,
              !.from = <<trackOffset, ringWidth, Len(allTracks)>>]
  IN /\ opsLeft > 0
     /\ Listening(KeySelectedTrack)
     /\ opsLeft' = opsLeft - 1
     /\ IF trackIndex # -1 /\ ~visible
        THEN \* followTrackIndex, lines 1347-1349
             /\ trackOffset' = newOffset
             /\ runs' = runs \cup {r}
             /\ offsetOp' = "follow"
             /\ lastRun' = NoRun
             /\ UNCHANGED <<allTracks, masterTrack, ringWidth, windowVars,
                            selectedTrackIndex, observe, syncedAt>>
        ELSE /\ selectedTrackIndex' = trackIndex
             /\ runs' = runs \cup {SelectedEnter(r)}
             /\ UNCHANGED <<ringVars, bookVars>>
     /\ UNCHANGED <<globalSubs, activeProperty, paramVars, dawMute, dawParam,
                    listeners, writes, inbox, phase, sink, calls,
                    selectedTrackName, clipVars, dawName, dawSlot>>
SelectedTrackEvent(id) == SelectedTrackPush(id) /\ UNCHANGED session

\* The user selects a track in the DAW, which holds it as
\* song.view.selected_track and pushes it to the listener.
SelectTrack(id) ==
  /\ session.selected # id
  /\ session' = [session EXCEPT !.selected = id]
  /\ SelectedTrackPush(id)

FocusUnsubReturn(r) ==
  /\ r.pc \in {"selUnsub", "clipUnsub", "propsUnsub"}
  /\ ApplyFocus(FocusUnsubResume(Foc, r), {r})
  /\ UNCHANGED <<selectedTrackIndex, inbox, opsLeft>>
  /\ FocusFrame

SelNameReturn(r) ==
  /\ r.pc = "selName"
  /\ ApplyFocus(SelNameResume(Foc, r), {r})
  /\ UNCHANGED <<selectedTrackIndex, inbox, opsLeft>>
  /\ FocusFrame

FocusListenReturn(r) ==
  /\ r.pc = "focusListen"
  /\ ApplyFocus(FocusListenResume(Foc, r), {r})
  /\ UNCHANGED <<selectedTrackIndex, inbox, opsLeft>>
  /\ FocusFrame

FocusExistingReturn(r) ==
  /\ r.pc = "focusExisting"
  /\ ApplyFocus(FocusExistingResume(Foc, r), {r})
  /\ UNCHANGED <<selectedTrackIndex, inbox, opsLeft>>
  /\ FocusFrame

ClipSlotReturn(r) ==
  /\ r.pc = "clipSlot"
  /\ ApplyFocus(ClipSlotResume(Foc, r), {r})
  /\ UNCHANGED <<selectedTrackIndex, inbox, opsLeft>>
  /\ FocusFrame

ClipGetReturn(r) ==
  /\ r.pc = "clipGet"
  /\ ApplyFocus(ClipGetResume(Foc, r), {r})
  /\ UNCHANGED <<selectedTrackIndex, inbox, opsLeft>>
  /\ FocusFrame

ClipFetchReturn(r) ==
  /\ r.pc = "clipFetch"
  /\ ApplyFocus(ClipFetchResume(Foc, r), {r})
  /\ UNCHANGED <<selectedTrackIndex, inbox, opsLeft>>
  /\ FocusFrame

\* The is_playing and record_mode listeners, lines 196-203 and 210-217: the
\* transport state is sent again.
TransportEvent ==
  /\ opsLeft > 0
  /\ Listening(KeyIsPlaying)
  /\ opsLeft' = opsLeft - 1
  /\ sink' = Emit(<< [evt |-> "RT_TRANSPORT"] >>)
  /\ UNCHANGED <<ringVars, globalSubs, activeProperty, paramVars, dawVars,
                 runs, phase, calls, bookVars, focusVars>>

\* Bookkeeping: a rename, with the length of the sink when it happened and
\* whether the object was the track the manager follows as selected.
RenameRec(obj, name) ==
  [op |-> "rename", target |-> obj, name |-> name, mark |-> Len(sink),
   selected |-> \E t \in listeners : t.key = KeySelName /\ t.on = obj,
   resident |-> obj \in DOMAIN ringIndexByTrackId]

\* The user renames a track or a clip: the DAW notifies the listeners on
\* its name, the ring's and the selected track's or the playing clip's.
Rename(obj, name) ==
  /\ opsLeft > 0
  /\ dawName[obj] # name
  /\ opsLeft' = opsLeft - 1
  /\ calls' = Append(calls, RenameRec(obj, name))
  /\ dawName' = [dawName EXCEPT ![obj] = name]
  /\ inbox' = inbox
       \o Notify("ringName", RingKey(obj, <<"name">>), obj, name)
       \o Notify("selName", KeySelName, obj, name)
       \o Notify("clipName", KeyClipName, obj, name)
  /\ UNCHANGED <<ringVars, globalSubs, activeProperty, paramVars, session,
                 dawMute, dawParam, listeners, writes, runs, phase, sink,
                 bookVars, selectedVars, clipVars, dawSlot>>

\* A track starts to play the clip of a slot, or stops.
PlaySlot(id, slot) ==
  /\ opsLeft > 0
  /\ dawSlot[id] # slot
  /\ \/ slot = Stopped
     \/ /\ slot >= 0 /\ slot < session.scenes
        /\ SlotClips(session, id)[slot + 1] # NoId
  /\ opsLeft' = opsLeft - 1
  /\ dawSlot' = [dawSlot EXCEPT ![id] = slot]
  /\ inbox' = inbox \o Notify("slot", KeyClipSlot, id, slot)
  /\ UNCHANGED <<ringVars, globalSubs, activeProperty, paramVars, session,
                 dawMute, dawParam, listeners, writes, runs, phase, sink, calls,
                 bookVars, selectedVars, clipVars, dawName>>

\* The notifications of the tracks of `ids` that stop playing.
RECURSIVE StopNotes(_)
StopNotes(ids) ==
  IF ids = <<>> THEN <<>>
  ELSE (IF dawSlot[Head(ids)] # Stopped
        THEN Notify("slot", KeyClipSlot, Head(ids), Stopped) ELSE <<>>)
       \o StopNotes(Tail(ids))

\* The user deletes the clip of a track, or the last scene with every clip
\* in it: a track that was playing the clip stops.
DeleteClips(ids, scenes) ==
  /\ opsLeft > 0
  /\ opsLeft' = opsLeft - 1
  /\ session' = [session EXCEPT !.clips = @ \ SeqToSet(ids), !.scenes = scenes]
  /\ dawSlot' = [id \in TrackIds |->
                   IF id \in SeqToSet(ids) THEN Stopped ELSE dawSlot[id]]
  /\ inbox' = inbox \o StopNotes(ids)
  /\ UNCHANGED <<ringVars, globalSubs, activeProperty, paramVars,
                 dawMute, dawParam, listeners, writes, runs, phase, sink, calls,
                 bookVars, selectedVars, clipVars, dawName>>
DeleteClip(id) == id \in session.clips /\ DeleteClips(<< id >>, session.scenes)
DeleteScene ==
  session.scenes = 2 /\ DeleteClips(TrackOrder, session.scenes - 1)

\* The name listener of subscribeRingTrack, lines 1047-1060.
NameListener(st, id, value) ==
  IF id \in DOMAIN st THEN [st EXCEPT ![id].name = value] ELSE st
\* A name listener that emits nothing.
NameListenerEventsSilent(id, value) == <<>>
NameListenerEvents(id, value) ==
  IF id \in DOMAIN ringIndexByTrackId
  THEN << [evt |-> "RT_INFO", i |-> ringIndexByTrackId[id], name |-> value,
           isMidi |-> IF id \in DOMAIN trackStates
                      THEN trackStates[id].isMidi ELSE FALSE] >>
  ELSE <<>>

\* A name notification reaches its listener: the ring's (lines 1047-1060),
\* the selected track's (lines 787-797) or the playing clip's (lines
\* 892-899).
DeliverName ==
  /\ inbox # <<>>
  /\ Head(inbox).kind \in {"ringName", "selName", "clipName"}
  /\ LET e == Head(inbox)
     IN /\ inbox' = Tail(inbox)
        /\ trackStates' = IF e.kind = "ringName"
                          THEN NameListener(trackStates, e.id, e.v)
                          ELSE trackStates
        /\ selectedTrackName' = IF e.kind = "selName" THEN e.v
                                ELSE selectedTrackName
        /\ playingClipName' = IF e.kind = "clipName" THEN e.v
                              ELSE playingClipName
        /\ sink' = Emit(CASE e.kind = "ringName" -> NameListenerEvents(e.id, e.v)
                          [] e.kind = "selName" ->
                               << SelectedEvent(e.id, e.v) >>
                          [] OTHER -> << ClipEvent(e.v, playingClipColor) >>)
  /\ UNCHANGED <<allTracks, masterTrack, ringWidth, trackOffset,
                 currentRingTrackIds, ringIndexByTrackId, mixerCache, ringSubs,
                 globalSubs, activeProperty, paramVars, session, dawMute,
                 dawParam, listeners, writes, runs, phase, opsLeft, calls,
                 bookVars, selectedTrackIndex, playingClipColor, dawName,
                 dawSlot>>

\* A playing_slot_index notification reaches its listener (lines 933-935):
\* handleSlotIndex starts.
DeliverSlot ==
  /\ inbox # <<>>
  /\ Head(inbox).kind = "slot"
  /\ inbox' = Tail(inbox)
  /\ ApplyFocus(HandleEnter(Foc, [NewRun("playing_slot") EXCEPT
                                    !.sel = Head(inbox).id,
                                    !.slot = Head(inbox).v]), {})
  /\ UNCHANGED <<selectedTrackIndex, opsLeft>>
  /\ FocusFrame

\* ------------------------------------------------------- SubscriptionGroup
\* A SubscriptionGroup on its own, called directly: globalSubs is its Map,
\* listeners are the listeners the DAW holds, and every unsubscribe either
\* returns or raises.
GroupOrder == <<RingKey(IdA, <<"mute">>), RingKey(IdB, <<"mute">>), KeySelName>>
GroupPrefixes ==
  {TrackPrefix(IdA), TrackPrefix(IdB), <<"selected_track_prop">>, <<"song">>}
Thunks(entries) == [i \in 1 .. Len(entries) |-> entries[i].thunk]
Without(s, i) == SubSeq(s, 1, i - 1) \o SubSeq(s, i + 1, Len(s))

\* Bookkeeping: a call of the group that has returned, with the Map before
\* and after it, the unsubscribes it invoked and those that raised.
GroupRec(r, arg, after) ==
  [op |-> r.op, arg |-> arg, before |-> r.before, after |-> after,
   new |-> r.held, invoked |-> r.invoked, raised |-> r.raised]

GroupFrame ==
  UNCHANGED <<ringVars, activeProperty, paramVars, session, dawMute, dawParam,
              writes, inbox, phase, sink, bookVars, focusVars>>

\* What an unsubscribe that returned, or raised, leaves of the listeners.
Unsubscribed(thunk, ok) == IF ok THEN listeners \ {thunk} ELSE listeners

\* add(key, unsubFn), lines 23-36, to its await: the caller has registered
\* the listener already.
GroupAdd(key) ==
  LET t == FreshThunk(key, NoId)
      r == [NewRun("add") EXCEPT !.pc = "groupAdd", !.held = t,
                                 !.before = globalSubs, !.name = key]
  IN /\ opsLeft > 0
     /\ opsLeft' = opsLeft - 1
     /\ listeners' = listeners \cup {t}
     /\ IF key \in DOMAIN globalSubs
        THEN /\ runs' = runs \cup {[r EXCEPT !.existing = globalSubs[key],
                                            !.invoked = << globalSubs[key] >>]}
             /\ UNCHANGED <<globalSubs, calls>>
        ELSE /\ globalSubs' = MapSet(globalSubs, key, t)
             /\ calls' = Append(calls, GroupRec(r, key, globalSubs'))
             /\ UNCHANGED runs
     /\ GroupFrame

\* An add that stores the new unsubscribe only if the prior one returned.
GroupAddReturnStrict(r, ok) ==
  /\ r.pc = "groupAdd"
  /\ listeners' = Unsubscribed(r.existing, ok)
  /\ globalSubs' = IF ok THEN MapSet(globalSubs, r.held.key, r.held)
                   ELSE globalSubs
  /\ runs' = runs \ {r}
  /\ calls' = Append(calls,
       GroupRec([r EXCEPT !.raised = IF ok THEN {} ELSE {r.existing}],
                r.name, globalSubs'))
  /\ UNCHANGED opsLeft
  /\ GroupFrame

\* add after its await, lines 27-35.
GroupAddReturn(r, ok) ==
  /\ r.pc = "groupAdd"
  /\ listeners' = Unsubscribed(r.existing, ok)
  /\ globalSubs' = MapSet(globalSubs, r.held.key, r.held)
  /\ runs' = runs \ {r}
  /\ calls' = Append(calls,
       GroupRec([r EXCEPT !.raised = IF ok THEN {} ELSE {r.existing}],
                r.name, globalSubs'))
  /\ UNCHANGED opsLeft
  /\ GroupFrame

\* remove(key) for each of `pend`, lines 41-44 and 64, to the awaits.
GroupRemoveCall(op, arg, pend) ==
  LET r == [NewRun(op) EXCEPT !.pc = "groupRemove", !.before = globalSubs,
                              !.name = arg, !.pending = pend,
                              !.invoked = Thunks(pend)]
  IN /\ opsLeft > 0
     /\ opsLeft' = opsLeft - 1
     /\ IF pend = <<>>
        THEN calls' = Append(calls, GroupRec(r, arg, globalSubs))
             /\ UNCHANGED runs
        ELSE runs' = runs \cup {r} /\ UNCHANGED calls
     /\ UNCHANGED <<globalSubs, listeners>>
     /\ GroupFrame

\* remove(key), lines 41-51.
GroupRemove(key) ==
  GroupRemoveCall("remove", key,
                  IF key \in DOMAIN globalSubs
                  THEN << Entry(globalSubs, key) >> ELSE <<>>)

\* removeByPrefix(prefix), lines 58-66.
GroupRemoveByPrefix(prefix) ==
  GroupRemoveCall("removeByPrefix", prefix,
                  PrefixMatches(globalSubs, prefix, GroupOrder))

\* A remove that keeps the entry when its unsubscribe raised.
GroupRemoveReturnStrict(r, i, ok) ==
  /\ r.pc = "groupRemove"
  /\ i \in 1 .. Len(r.pending)
  /\ LET e == r.pending[i]
         r2 == [r EXCEPT !.pending = Without(@, i),
                         !.raised = IF ok THEN @ ELSE @ \cup {e.thunk}]
     IN /\ listeners' = Unsubscribed(e.thunk, ok)
        /\ globalSubs' = IF ok THEN MapDelete(globalSubs, e.key) ELSE globalSubs
        /\ IF r2.pending = <<>>
           THEN /\ runs' = runs \ {r}
                /\ calls' = Append(calls, GroupRec(r2, r.name, globalSubs'))
           ELSE /\ runs' = (runs \ {r}) \cup {r2}
                /\ UNCHANGED calls
  /\ UNCHANGED opsLeft
  /\ GroupFrame

\* One remove(key) after its await, lines 45-49.
GroupRemoveReturn(r, i, ok) ==
  /\ r.pc = "groupRemove"
  /\ i \in 1 .. Len(r.pending)
  /\ LET e == r.pending[i]
         r2 == [r EXCEPT !.pending = Without(@, i),
                         !.raised = IF ok THEN @ ELSE @ \cup {e.thunk}]
     IN /\ listeners' = Unsubscribed(e.thunk, ok)
        /\ globalSubs' = MapDelete(globalSubs, e.key)
        /\ IF r2.pending = <<>>
           THEN /\ runs' = runs \ {r}
                /\ calls' = Append(calls, GroupRec(r2, r.name, globalSubs'))
           ELSE /\ runs' = (runs \ {r}) \cup {r2}
                /\ UNCHANGED calls
  /\ UNCHANGED opsLeft
  /\ GroupFrame

\* A clear that empties the Map only once the unsubscribes have returned.
GroupClearLate ==
  LET pend == ClearEntries(globalSubs, GroupOrder)
      r == [NewRun("clear") EXCEPT !.pc = "groupClear", !.before = globalSubs,
                                   !.pending = pend, !.invoked = Thunks(pend)]
  IN /\ opsLeft > 0
     /\ opsLeft' = opsLeft - 1
     /\ globalSubs' = IF pend = <<>> THEN EmptyMap ELSE globalSubs
     /\ IF pend = <<>>
        THEN calls' = Append(calls, GroupRec(r, NoId, EmptyMap))
             /\ UNCHANGED runs
        ELSE runs' = runs \cup {r} /\ UNCHANGED calls
     /\ UNCHANGED listeners
     /\ GroupFrame

\* clear(), lines 71-74, to its await.
GroupClear ==
  LET pend == ClearEntries(globalSubs, GroupOrder)
      r == [NewRun("clear") EXCEPT !.pc = "groupClear", !.before = globalSubs,
                                   !.pending = pend, !.invoked = Thunks(pend)]
  IN /\ opsLeft > 0
     /\ opsLeft' = opsLeft - 1
     /\ globalSubs' = EmptyMap
     /\ IF pend = <<>>
        THEN calls' = Append(calls, GroupRec(r, NoId, EmptyMap))
             /\ UNCHANGED runs
        ELSE runs' = runs \cup {r} /\ UNCHANGED calls
     /\ UNCHANGED listeners
     /\ GroupFrame

\* One unsubscribe of clear returns or raises, lines 75-84.
GroupClearReturn(r, i, ok) ==
  /\ r.pc = "groupClear"
  /\ i \in 1 .. Len(r.pending)
  /\ LET e == r.pending[i]
         r2 == [r EXCEPT !.pending = Without(@, i),
                         !.raised = IF ok THEN @ ELSE @ \cup {e.thunk}]
     IN /\ listeners' = Unsubscribed(e.thunk, ok)
        /\ IF r2.pending = <<>>
           THEN /\ runs' = runs \ {r}
                /\ calls' = Append(calls, GroupRec(r2, NoId, globalSubs))
           ELSE /\ runs' = (runs \ {r}) \cup {r2}
                /\ UNCHANGED calls
  /\ UNCHANGED <<globalSubs, opsLeft>>
  /\ GroupFrame

\* ----------------------------------------------------------------- destroy
\* SubscriptionGroup.clear of globalSubs up to its await (lines 72-73), or,
\* when the group is empty, to the end of destroy().
ClearGlobalEnter(rs, gs, r) ==
  LET entries == ClearEntries(gs, AllGlobalKeys)
  IN [rs |-> rs, gs |-> EmptyMap,
      run |-> [r EXCEPT !.pc = "clearGlobal", !.pending = entries],
      fin |-> entries = <<>>]

\* SubscriptionGroup.clear of ringSubs up to its await.
ClearRingEnter(rs, gs, r) ==
  LET entries == ClearEntries(rs, AllRingKeys)
  IN IF entries = <<>> THEN ClearGlobalEnter(EmptyMap, gs, r)
     ELSE [rs |-> EmptyMap, gs |-> gs,
           run |-> [r EXCEPT !.pc = "clearRing", !.pending = entries],
           fin |-> FALSE]

\* One unsubscribe of a clear returns; after the last one destroy() goes on.
ClearResume(rs, gs, r) ==
  LET r2 == [r EXCEPT !.pending = Tail(@)]
  IN IF r2.pending # <<>> THEN [rs |-> rs, gs |-> gs, run |-> r2, fin |-> FALSE]
     ELSE IF r.pc = "clearRing" THEN ClearGlobalEnter(rs, gs, r2)
     ELSE [rs |-> rs, gs |-> gs, run |-> r2, fin |-> TRUE]

\* The state after one segment of destroy(); lines 304-308 when it ends.
ApplyDestroy(res, old) ==
  /\ ringSubs' = res.rs
  /\ globalSubs' = res.gs
  /\ runs' = (runs \ old) \cup (IF res.fin THEN {} ELSE {res.run})
  /\ phase' = IF res.fin THEN "destroyed" ELSE "destroying"
  /\ currentRingTrackIds' = IF res.fin THEN <<>> ELSE currentRingTrackIds
  /\ ringIndexByTrackId' =
       IF res.fin THEN [id \in {} |-> 0] ELSE ringIndexByTrackId
  /\ trackStates' = IF res.fin THEN [id \in {} |-> 0] ELSE trackStates
  /\ mixerCache' = IF res.fin THEN [id \in {} |-> 0] ELSE mixerCache
  /\ selectedParam' = IF res.fin THEN NoId ELSE selectedParam
  /\ UNCHANGED <<allTracks, masterTrack, ringWidth, trackOffset,
                 activeProperty, selectedParamName, selectedParamValue,
                 selectedParamMin, selectedParamMax, selectedParamDefault,
                 selectedParamSwitching, session, dawMute, dawParam, writes,
                 inbox, sink, opsLeft, calls, observe, syncedAt, focusVars>>

\* destroy(), lines 301-314, to its first await.
Destroy ==
  /\ ApplyDestroy(ClearRingEnter(ringSubs, globalSubs, NewRun("destroy")), {})
  /\ lastRun' = NoRun /\ offsetOp' = "none"
  /\ UNCHANGED listeners

ClearReturn(r) ==
  /\ r.pc \in {"clearRing", "clearGlobal"}
  /\ ApplyDestroy(ClearResume(ringSubs, globalSubs, r), {r})
  /\ listeners' = listeners \ {Head(r.pending).thunk}
  /\ UNCHANGED <<lastRun, offsetOp>>

\* ---------------------------------------------------------- initial states
\* Sessions of the DAW.  In the plain session every track is a MIDI track
\* that cannot be armed and there is no return track, so a build has the
\* fewest RPCs; the mixed session has one track of each sort.
PlainSession ==
  [tracks |-> InitialTracks, midi |-> {IdA, IdB, IdC}, armable |-> {},
   returns |-> 0, volume |-> [id \in TrackIds |-> 0], param |-> NoId,
   soloed |-> {}, armed |-> {}, panning |-> [id \in TrackIds |-> 0],
   sendv |-> 0, scenes |-> 2, clips |-> TrackIds, color |-> DawColorAtStart,
   selected |-> NoId]
MixedSession(tracks, param) ==
  [tracks |-> tracks, midi |-> {IdC}, armable |-> {IdA},
   returns |-> MaxReturns, volume |-> [id \in TrackIds |-> 0], param |-> param,
   soloed |-> {IdB}, armed |-> {IdA}, panning |-> [id \in TrackIds |-> 0],
   sendv |-> 0, scenes |-> 2, clips |-> TrackIds, color |-> DawColorAtStart,
   selected |-> NoId]
DawMuteAtStart == [id \in TrackIds |-> id = IdB]
DawNameAtStart == [x \in TrackIds \cup Clips |-> OldName]
DawSlotAtStart == [id \in TrackIds |-> Stopped]
DawParamAtStart == [p \in Params |-> 1]

\* The DAW, the books of the check and a manager whose constructor has
\* returned (lines 60-136).
Constructed(sess, budget, obs) ==
  /\ session = sess
  /\ dawMute = DawMuteAtStart /\ dawParam = DawParamAtStart
  /\ writes = <<>> /\ inbox = <<>> /\ runs = {}
  /\ sink = <<>> /\ observe = obs /\ opsLeft = budget /\ calls = <<>>
  /\ lastRun = NoRun /\ offsetOp = "none"
  /\ activeProperty = "volume"
  /\ selectedParamSwitching = FALSE
  /\ trackOffset = 0
  /\ selectedTrackIndex = -1 /\ selectedTrackName = NoName
  /\ playingClipName = NoName /\ playingClipColor = NoColor
  /\ dawName = DawNameAtStart /\ dawSlot = DawSlotAtStart

InitLife ==
  /\ \E tracks \in TrackLists, param \in {NoId, ParamP},
        n \in {0, MaxReturns} :
       Constructed([MixedSession(tracks, param) EXCEPT !.returns = n],
                   MaxLifeOps, {})
  /\ phase = "new"
  /\ allTracks = <<>> /\ masterTrack = NoId /\ ringWidth = 0
  /\ currentRingTrackIds = <<>>
  /\ ringIndexByTrackId = EmptyMap /\ trackStates = EmptyMap
  /\ mixerCache = EmptyMap /\ ringSubs = EmptyMap /\ globalSubs = EmptyMap
  /\ listeners = {}
  /\ selectedParam = NoId /\ selectedParamName = NoId
  /\ selectedParamValue = 0 /\ selectedParamMin = 0 /\ selectedParamMax = 1
  /\ selectedParamDefault = 0
  /\ syncedAt = <<>>

\* The keys a finished build of `id` holds, and the thunk of a first
\* registration.
BuiltKeys(id) ==
  LET sl == StageList(id, id = DawMaster, session.returns)
  IN { RingKey(id, sl[i].prop) : i \in { j \in 1 .. Len(sl) : sl[j].kind = "sub" } }
FirstThunk(key, on) == [key |-> key, n |-> 0, on |-> on]

\* The manager after init() and then setupRing(width, s, 0) have run to
\* completion in the session `sess`, with no DAW event in between.
Ready(sess, width, budget, obs) ==
  LET ids == Slice(sess.tracks, 0, width)
      keys == UNION { BuiltKeys(id) : id \in SeqToSet(ids) }
      gkeys == SeqToSet(InitKeys)
               \cup (IF sess.param # NoId THEN {KeyParamValue} ELSE {})
      gthunk(k) == FirstThunk(k, IF k = KeyParamValue THEN sess.param ELSE NoId)
      p == sess.param
  IN /\ Constructed(sess, budget, obs)
     /\ phase = "ready"
     /\ allTracks = sess.tracks /\ masterTrack = DawMaster /\ ringWidth = width
     /\ currentRingTrackIds = ids
     /\ ringIndexByTrackId = [id \in SeqToSet(ids) |-> IndexOf(ids, id)]
     /\ trackStates =
          [id \in SeqToSet(ids) |->
             IF id = DawMaster THEN TrackState(id, FALSE, 0)
             ELSE TrackState(id, dawMute[id], sess.returns)]
     /\ mixerCache =
          [id \in SeqToSet(ids) |->
             MixerEntry(id, IF id = DawMaster THEN 0 ELSE sess.returns)]
     /\ ringSubs = [k \in keys |-> FirstThunk(k, KeyTrack(k))]
     /\ globalSubs = [k \in gkeys |-> gthunk(k)]
     /\ listeners = { FirstThunk(k, KeyTrack(k)) : k \in keys }
                    \cup { gthunk(k) : k \in gkeys }
     /\ selectedParam = p
     /\ selectedParamName = p
     /\ selectedParamValue = IF p # NoId THEN dawParam[p] ELSE 0
     /\ selectedParamMin = IF p # NoId THEN ParamMin[p] ELSE 0
     /\ selectedParamMax = IF p # NoId THEN ParamMax[p] ELSE 1
     /\ selectedParamDefault = IF p # NoId THEN ParamDefault[p] ELSE 0
     /\ syncedAt = <<sess.tracks, 0, width>>

\* The package's own start-up: init(), then setupRing(1, 8)
\* (src/src/index.js, lines 37-39).
StartWidth == 1
InitRing == Ready(PlainSession, StartWidth, MaxOps, {})
InitMute ==
  \E tracks \in {InitialTracks, <<IdA, IdM>>}, w \in 1 .. MaxWidth :
    Ready(MixedSession(tracks, NoId), w, MaxToggles, {"RT_MUTE"})
AllEvents ==
  {"RT_MUTE", "RT_SOLO", "RT_ARM", "RT_VOL", "RT_PAN", "RT_INFO", "RT_SEND",
   "RT_PARAM"}
InitSends ==
  \E tracks \in {InitialTracks, <<IdA, IdM>>}, w \in 1 .. MaxWidth,
     n \in 0 .. MaxReturns :
    Ready([MixedSession(tracks, NoId) EXCEPT !.returns = n], w, MaxSendOps,
          AllEvents)
InitWrites ==
  \E tracks \in {InitialTracks, <<IdA, IdM>>}, w \in 1 .. MaxWidth :
    Ready(MixedSession(tracks, ParamP), w, MaxWriteOps, AllEvents)
InitListen ==
  \E w \in 1 .. MaxWidth :
    Ready(MixedSession(InitialTracks, NoId), w, MaxListenOps, {"RT_MUTE"})
InitStale ==
  \E w \in 1 .. MaxWidth :
    Ready(MixedSession(InitialTracks, NoId), w, MaxStaleOps, AllEvents)
\* A session in which no track's id begins with the id of the track before
\* it.
SlideTracks == <<IdC, IdA, IdB>>
InitSlide ==
  \E w \in 1 .. MaxWidth :
    Ready(MixedSession(SlideTracks, NoId), w, MaxStaleOps, AllEvents)
InitFaults ==
  \E w \in 1 .. MaxWidth :
    Ready(MixedSession(InitialTracks, NoId), w, MaxFaultOps, {})
InitParam ==
  Ready(MixedSession(InitialTracks, ParamP), StartWidth, MaxParamOps,
        {"RT_PARAM"})

InitFocus ==
  \E w \in 1 .. MaxWidth :
    Ready(MixedSession(InitialTracks, NoId), w, MaxFocusOps,
          AllEvents \cup {"RT_SELECTED", "RT_PLAYING_CLIP"})

InitChase ==
  Ready(MixedSession(InitialTracks, NoId), MaxWidth, MaxChaseOps,
        AllEvents \cup {"RT_SELECTED", "RT_PLAYING_CLIP"})

\* The manager after init() alone: the ring has no width yet.
InitBare ==
  Ready(MixedSession(InitialTracks, NoId), 0, MaxBareOps, {"RT_TRANSPORT"})

\* A ring with a MIDI track, an audio track or the master among its
\* residents.
InitActive ==
  \E tracks \in {<<IdC, IdA>>, <<IdA, IdM>>}, w \in 1 .. MaxWidth,
     param \in {NoId, ParamP} :
    Ready(MixedSession(tracks, param), w, MaxActiveOps, AllEvents)

\* A manager whose group is empty and not listened to.
InitGroup ==
  /\ Constructed(PlainSession, MaxGroupOps, {})
  /\ phase = "ready"
  /\ allTracks = <<>> /\ masterTrack = NoId /\ ringWidth = 0
  /\ currentRingTrackIds = <<>>
  /\ ringIndexByTrackId = EmptyMap /\ trackStates = EmptyMap
  /\ mixerCache = EmptyMap /\ ringSubs = EmptyMap /\ globalSubs = EmptyMap
  /\ listeners = {}
  /\ selectedParam = NoId /\ selectedParamName = NoId
  /\ selectedParamValue = 0 /\ selectedParamMin = 0 /\ selectedParamMax = 1
  /\ selectedParamDefault = 0
  /\ syncedAt = <<>>
InitRace ==
  /\ Constructed(PlainSession, MaxRaceOps, {})
  /\ phase = "ready"
  /\ allTracks = <<>> /\ masterTrack = NoId /\ ringWidth = 0
  /\ currentRingTrackIds = <<>>
  /\ ringIndexByTrackId = EmptyMap /\ trackStates = EmptyMap
  /\ mixerCache = EmptyMap /\ ringSubs = EmptyMap /\ globalSubs = EmptyMap
  /\ listeners = {}
  /\ selectedParam = NoId /\ selectedParamName = NoId
  /\ selectedParamValue = 0 /\ selectedParamMin = 0 /\ selectedParamMax = 1
  /\ selectedParamDefault = 0
  /\ syncedAt = <<>>

\* ---------------------------------------------------------- specifications
\* Handlers that end in a sync overlap freely.
RingOffsets == {0, 1}
RingTrackLists == {InitialTracks, <<IdB, IdC>>}
NextRing ==
  \/ \E w \in 1 .. MaxWidth : SetupRing(w, 0)
  \/ \E o \in RingOffsets : SetOffset(o)
  \/ \E d \in {"left", "right"} : NavigateRing(d)
  \/ FollowTrackIndex(2)
  \/ \E t \in RingTrackLists : TracksEvent(t)
  \/ \E r \in runs : SessionReturn(r)
  \/ \E r \in runs : UnsubReturn(r)
  \/ \E r \in runs : BuildReturn(r)
  \/ \E r \in runs : ExistingReturn(r)
SpecRing == InitRing /\ [][NextRing]_vars

\* One handler at a time, over the whole life of a manager: init() is called
\* once, on the new manager; a command or a DAW event arrives only after
\* init() has returned and when no handler is suspended; nothing arrives
\* once destroy() has been called.
Idle == phase = "ready" /\ runs = {}
NextLife ==
  \/ phase = "new" /\ InitCall
  \/ \E r \in runs : InitReturn(r)
  \/ \E r \in runs : InitParamReturn(r)
  \/ \E r \in runs, ok \in BOOLEAN : FetchReturn(r, ok)
  \/ \E r \in runs : ListenReturn(r)
  \/ Idle /\ \E w \in WidthArgs, o \in OffsetArgs : SetupRing(w, o)
  \/ Idle /\ \E o \in OffsetArgs : SetOffset(o)
  \/ Idle /\ \E d \in {"left", "right"} : NavigateRing(d)
  \/ Idle /\ \E a \in OffsetArgs : FollowTrackIndex(a)
  \/ Idle /\ \E t \in TrackLists : TracksEvent(t)
  \/ \E r \in runs : SessionReturn(r)
  \/ \E r \in runs : UnsubReturn(r)
  \/ \E r \in runs : BuildReturn(r)
  \/ Idle /\ \E n \in 0 .. MaxReturns : ReturnTracksEvent(n)
  \/ \E r \in runs : ResubUnsubReturn(r)
  \/ \E r \in runs : ResubGetReturn(r)
  \/ \E r \in runs : ResubAddReturn(r)
  \/ Idle /\ Destroy
  \/ \E r \in runs : ClearReturn(r)
SpecLife == InitLife /\ [][NextLife]_vars

\* Toggles on a ring that stays where it is.
NextMute ==
  \/ \E k \in -1 .. MaxWidth : ToggleMute(k)
  \/ DawApply
  \/ Deliver
SpecMute == InitMute /\ [][NextMute]_vars

\* Selected-parameter pushes and commands, in any interleaving.
StepSizes == {1}
NextParam ==
  \/ \E p \in Params \cup {NoId} : ParamPush(p)
  \/ \E r \in runs : PUnsubReturn(r)
  \/ \E r \in runs, ok \in BOOLEAN : FetchReturn(r, ok)
  \/ \E r \in runs : ListenReturn(r)
  \/ \E r \in runs : PExistingReturn(r)
  \/ \E s \in StepSizes : AdjustSelectedParameter(1, s)
  \/ ResetSelectedParameter
  \/ \E p \in {"volume", "selected_parameter"} : SetActiveProperty(p)
  \/ SetActivePropertyValue(0, 255)
  \/ \E s \in StepSizes : AdjustActivePropertyValue(0, 1, s)
  \/ DawApply
  \/ Deliver
SpecParam == InitParam /\ [][NextParam]_vars

\* The user selects parameters one after the other; the handlers overlap
\* freely and no RPC fails.
NextSwitch ==
  \/ \E p \in Params \cup {NoId} : SelectParameter(p)
  \/ \E r \in runs : PUnsubReturn(r)
  \/ \E r \in runs : FetchReturn(r, TRUE)
  \/ \E r \in runs : ListenReturn(r)
  \/ \E r \in runs : PExistingReturn(r)
SpecSwitch == InitParam /\ [][NextSwitch]_vars

\* Return-track changes and ring moves, overlapping freely.
NextSends ==
  \/ \E n \in 0 .. MaxReturns : ReturnTracksEvent(n)
  \/ \E r \in runs : ResubUnsubReturn(r)
  \/ \E r \in runs : ResubGetReturn(r)
  \/ \E r \in runs : ResubAddReturn(r)
  \/ \E r \in runs : ResubExistingReturn(r)
  \/ \E o \in RingOffsets : SetOffset(o)
  \/ \E r \in runs : SessionReturn(r)
  \/ \E r \in runs : UnsubReturn(r)
  \/ \E r \in runs : BuildReturn(r)
  \/ \E r \in runs : ExistingReturn(r)
SpecSends == InitSends /\ [][NextSends]_vars

\* Ring moves, one handler at a time, where any RPC of a build may be
\* rejected.
NextFaults ==
  \/ Idle /\ \E w \in 1 .. MaxWidth : SetupRing(w, 0)
  \/ Idle /\ \E o \in RingOffsets : SetOffset(o)
  \/ \E r \in runs : SessionReturn(r)
  \/ \E r \in runs : UnsubReturn(r)
  \/ \E r \in runs : BuildReturn(r)
  \/ \E r \in runs : BuildFailure(r)
SpecFaults == InitFaults /\ [][NextFaults]_vars

\* Mute toggles and ring moves, handlers one at a time, while the DAW applies
\* writes and notifies at its own pace.
NextListen ==
  \/ Idle /\ \E k \in 0 .. MaxWidth - 1 : ToggleMute(k)
  \/ Idle /\ \E o \in RingOffsets : SetOffset(o)
  \/ \E r \in runs : SessionReturn(r)
  \/ \E r \in runs : UnsubReturn(r)
  \/ \E r \in runs : BuildReturn(r)
  \/ DawApply
  \/ Deliver
SpecListen == InitListen /\ [][NextListen]_vars

\* Edits in the DAW between ring moves: the user changes a track, resident
\* or not, when no handler is suspended, and the ring moves one handler at a
\* time.
UserValues == {0, 1}
NextStale ==
  \/ Idle /\ \E id \in TrackIds \ {IdM}, prop \in UserProps, v \in UserValues :
               UserSet(id, prop, v)
  \/ Idle /\ \E o \in RingOffsets : SetOffset(o)
  \/ \E r \in runs : SessionReturn(r)
  \/ \E r \in runs : UnsubReturn(r)
  \/ \E r \in runs : BuildReturn(r)
  \/ Deliver
  \/ DeliverMixer
  \/ DeliverColor
SpecStale == InitStale /\ [][NextStale]_vars

\* Mutes toggled in the DAW at any time, also while a track is being built;
\* the ring moves one handler at a time.
NextBuild ==
  \/ \E id \in TrackIds \ {IdM}, v \in UserValues : UserSet(id, "mute", v)
  \/ Idle /\ \E o \in RingOffsets : SetOffset(o)
  \/ \E r \in runs : SessionReturn(r)
  \/ \E r \in runs : UnsubReturn(r)
  \/ \E r \in runs : BuildReturn(r)
  \/ Deliver
SpecBuild == InitStale /\ [][NextBuild]_vars
SpecSlide == InitSlide /\ [][NextBuild]_vars

\* destroy() called at any moment of a manager that is ready, also while a
\* ring move is suspended; the ring moves one handler at a time and no
\* command arrives once destroy() has been called.
NextHalt ==
  \/ Idle /\ \E o \in RingOffsets : SetOffset(o)
  \/ \E r \in runs : SessionReturn(r)
  \/ \E r \in runs : UnsubReturn(r)
  \/ \E r \in runs : BuildReturn(r)
  \/ phase = "ready" /\ Destroy
  \/ \E r \in runs : ClearReturn(r)
SpecHalt == InitStale /\ [][NextHalt]_vars

\* Mute toggles at any time, also while a ring move is in progress; the
\* ring moves one handler at a time.
NextShift ==
  \/ \E k \in 0 .. MaxWidth - 1 : ToggleMute(k)
  \/ Idle /\ \E o \in RingOffsets : SetOffset(o)
  \/ \E r \in runs : SessionReturn(r)
  \/ \E r \in runs : UnsubReturn(r)
  \/ \E r \in runs : BuildReturn(r)
  \/ DawApply
  \/ Deliver
SpecShift == InitStale /\ [][NextShift]_vars

\* The selected track and its playing clip: the user selects a track when
\* no handler is suspended, renames tracks and clips when nothing is
\* pending, and starts and stops clips at any time.
SelectArgs == {IdA, IdC, IdM}
RenameArgs == {IdA, IdM, ClipOf(IdA)}
SlotArgs == {Stopped, 0, 1}
NextFocus ==
  \/ Idle /\ inbox = <<>> /\ \E id \in SelectArgs : SelectedTrackEvent(id)
  \/ \E r \in runs : SessionReturn(r)
  \/ \E r \in runs : UnsubReturn(r)
  \/ \E r \in runs : BuildReturn(r)
  \/ \E r \in runs : FocusUnsubReturn(r)
  \/ \E r \in runs : SelNameReturn(r)
  \/ \E r \in runs : FocusListenReturn(r)
  \/ \E r \in runs : FocusExistingReturn(r)
  \/ \E r \in runs : ClipSlotReturn(r)
  \/ \E r \in runs : ClipGetReturn(r)
  \/ \E r \in runs : ClipFetchReturn(r)
  \/ Idle /\ inbox = <<>>
        /\ \E obj \in RenameArgs, name \in {OldName, NewName} :
             Rename(obj, name)
  \/ \E slot \in SlotArgs : PlaySlot(IdA, slot)
  \/ DeleteClip(IdA)
  \/ DeleteScene
  \/ DeliverName
  \/ DeliverSlot
SpecFocus == InitFocus /\ [][NextFocus]_vars

\* The user selects one track after the other, when no notification is
\* pending, and the handlers overlap freely; a track is renamed when nothing
\* is suspended or pending.
NextChase ==
  \/ inbox = <<>> /\ \E id \in SelectArgs : SelectTrack(id)
  \/ Idle /\ inbox = <<>> /\ Rename(IdA, NewName)
  \/ \E r \in runs : SessionReturn(r)
  \/ \E r \in runs : UnsubReturn(r)
  \/ \E r \in runs : BuildReturn(r)
  \/ \E r \in runs : FocusUnsubReturn(r)
  \/ \E r \in runs : SelNameReturn(r)
  \/ \E r \in runs : FocusListenReturn(r)
  \/ \E r \in runs : FocusExistingReturn(r)
  \/ \E r \in runs : ClipSlotReturn(r)
  \/ DeliverName
SpecChase == InitChase /\ [][NextChase]_vars

\* From the end of init(): DAW events, one handler at a time, and the
\* first setupRing.
NextBare ==
  \/ Idle /\ \E t \in RingTrackLists : TracksEvent(t)
  \/ Idle /\ \E n \in 0 .. MaxReturns : ReturnTracksEvent(n)
  \/ Idle /\ \E id \in SelectArgs : SelectedTrackEvent(id)
  \/ Idle /\ \E p \in {ParamP, NoId} : ParamPush(p)
  \/ Idle /\ TransportEvent
  \/ Idle /\ ringWidth = 0 /\ \E w \in 1 .. MaxWidth : SetupRing(w, 0)
  \/ \E r \in runs : SessionReturn(r)
  \/ \E r \in runs : UnsubReturn(r)
  \/ \E r \in runs : BuildReturn(r)
  \/ \E r \in runs : ResubUnsubReturn(r)
  \/ \E r \in runs : ResubGetReturn(r)
  \/ \E r \in runs : ResubAddReturn(r)
  \/ \E r \in runs : PUnsubReturn(r)
  \/ \E r \in runs, ok \in BOOLEAN : FetchReturn(r, ok)
  \/ \E r \in runs : ListenReturn(r)
  \/ \E r \in runs : FocusUnsubReturn(r)
  \/ \E r \in runs : SelNameReturn(r)
  \/ \E r \in runs : FocusListenReturn(r)
  \/ \E r \in runs : ClipSlotReturn(r)
SpecBare == InitBare /\ [][NextBare]_vars

\* The calls of a SubscriptionGroup, one at a time.
NextGroup ==
  \/ runs = {} /\ \E i \in 1 .. Len(GroupOrder) : GroupAdd(GroupOrder[i])
  \/ runs = {} /\ \E i \in 1 .. Len(GroupOrder) : GroupRemove(GroupOrder[i])
  \/ runs = {} /\ \E p \in GroupPrefixes : GroupRemoveByPrefix(p)
  \/ runs = {} /\ GroupClear
  \/ \E r \in runs, ok \in BOOLEAN : GroupAddReturn(r, ok)
  \/ \E r \in runs, i \in 1 .. Len(GroupOrder), ok \in BOOLEAN :
       GroupRemoveReturn(r, i, ok)
  \/ \E r \in runs, i \in 1 .. Len(GroupOrder), ok \in BOOLEAN :
       GroupClearReturn(r, i, ok)
SpecGroup == InitGroup /\ [][NextGroup]_vars

\* The calls of a SubscriptionGroup in any interleaving: a call may start
\* while others await their unsubscribes.
NextRace ==
  \/ \E i \in 1 .. Len(GroupOrder) : GroupAdd(GroupOrder[i])
  \/ \E i \in 1 .. Len(GroupOrder) : GroupRemove(GroupOrder[i])
  \/ \E p \in GroupPrefixes : GroupRemoveByPrefix(p)
  \/ GroupClear
  \/ \E r \in runs, ok \in BOOLEAN : GroupAddReturn(r, ok)
  \/ \E r \in runs, i \in 1 .. Len(GroupOrder), ok \in BOOLEAN :
       GroupRemoveReturn(r, i, ok)
  \/ \E r \in runs, i \in 1 .. Len(GroupOrder), ok \in BOOLEAN :
       GroupClearReturn(r, i, ok)
SpecRace == InitRace /\ [][NextRace]_vars

\* Every command that writes to the DAW, on a ring that stays where it is.
RingIndexArgs == -1 .. MaxWidth
NextWrites ==
  \/ \E k \in RingIndexArgs : ToggleMute(k)
  \/ \E k \in RingIndexArgs : ToggleSolo(k)
  \/ \E k \in RingIndexArgs : ToggleArm(k)
  \/ \E k \in RingIndexArgs : SetVolume(k, 1)
  \/ \E k \in RingIndexArgs : SetPanning(k, 1)
  \/ \E k \in RingIndexArgs, si \in {0, MaxReturns} : SetSend(k, si, 1)
  \/ \E k \in RingIndexArgs : SelectTrackInRing(k)
  \/ \E p \in ActiveProperties : SetActiveProperty(p)
  \/ \E k \in RingIndexArgs : SetActivePropertyValue(k, 255)
  \/ \E k \in RingIndexArgs : AdjustActivePropertyValue(k, 1, 1)
  \/ \E k \in RingIndexArgs : ResetActivePropertyValue(k)
  \/ AdjustSelectedParameter(1, 1)
  \/ ResetSelectedParameter
  \/ DawApply
  \/ Deliver
SpecWrites == InitWrites /\ [][NextWrites]_vars

\* The active property: mode switches and relative adjustments on a ring
\* that stays where it is, while the DAW applies the writes and notifies.
Deltas == {-1, 1, 2}
PushArgs == ActiveProperties \cup {"send:-1"}
NextActive ==
  \/ \E q \in PushArgs : SetActiveProperty(q)
  \/ \E k \in RingIndexArgs, d \in Deltas, st \in StepSizes :
       AdjustActivePropertyValue(k, d, st)
  \/ DawApply
  \/ DawApplyMixer
  \/ Deliver
  \/ DeliverMixer
SpecActive == InitActive /\ [][NextActive]_vars

\* Selected-parameter pushes, one at a time, where the fetches or the
\* registration of the value listener may be rejected.
NextParamFaults ==
  \/ Idle /\ \E p \in Params \cup {NoId} : ParamPush(p)
  \/ \E r \in runs : PUnsubReturn(r)
  \/ \E r \in runs, ok \in BOOLEAN : FetchReturn(r, ok)
  \/ \E r \in runs : ListenReturn(r)
  \/ \E r \in runs : ListenFailure(r)
SpecParamFaults == InitParam /\ [][NextParamFaults]_vars

\* ------------------------------------------------------------------ claims
\* A sync run has completed in the step that led to this state.
SyncDone == lastRun.op # None
Residents == SeqToSet(currentRingTrackIds)

\* C1: after any syncRingListeners run completes, every id in
\* currentRingTrackIds has an entry in trackStates and one in mixerCache.
C1_ResidentsCached ==
  SyncDone =>
    \A id \in Residents : id \in DOMAIN trackStates /\ id \in DOMAIN mixerCache

\* C2: after any syncRingListeners run completes, every key of ringSubs of
\* the form track:{id}:* names an id that is in currentRingTrackIds.
C2_KeysOfResidentsOnly ==
  SyncDone => \A key \in DOMAIN ringSubs : KeyTrack(key) \in Residents

\* C3: after any syncRingListeners run completes, ringIndexByTrackId maps
\* currentRingTrackIds[k] to k for every position k, and has no entry for an
\* id outside currentRingTrackIds.
C3_IndexMatchesWindow ==
  SyncDone =>
    /\ \A k \in 1 .. Len(currentRingTrackIds) :
         /\ currentRingTrackIds[k] \in DOMAIN ringIndexByTrackId
         /\ ringIndexByTrackId[currentRingTrackIds[k]] = k - 1
    /\ DOMAIN ringIndexByTrackId \subseteq Residents

\* C4: after any operation that updates trackOffset (setupRing, setOffset,
\* navigateRing, follow), 0 <= trackOffset <= max(0, len(tracks) - width),
\* whatever arguments the caller passed.
C4_OffsetInRange ==
  offsetOp # "none" =>
    0 <= trackOffset /\ trackOffset <= Max2(0, Len(allTracks) - ringWidth)

\* C5: while selectedParamSwitching is true, none of setActivePropertyValue,
\* adjustActivePropertyValue, adjustSelectedParameter and
\* resetSelectedParameter writes to a selected parameter.
ParamCommands ==
  {"setActivePropertyValue", "adjustActivePropertyValue",
   "adjustSelectedParameter", "resetSelectedParameter"}
C5_NoWriteWhileSwitching ==
  \A i \in 1 .. Len(calls) :
    calls[i].op \in ParamCommands /\ calls[i].switching
      => calls[i].target \notin Params
\* A command met the raised guard while a parameter with a range was cached.
C5_Witness ==
  \E i \in 1 .. Len(calls) :
    /\ calls[i].op = "adjustSelectedParameter"
    /\ calls[i].switching /\ calls[i].selected = ParamP
    /\ calls[i].target = NoId

\* C6: on a push of a non-null parameter the cached parameter, name, min, max
\* and default are replaced together, after the fetches; an
\* adjustSelectedParameter called while a fetch is pending writes nothing;
\* and the switch emits exactly one RT_PARAM, with the fetched name, value,
\* min, max and nv.
C6_SwitchIsGuarded ==
  /\ selectedParam # NoId =>
       /\ selectedParamName = selectedParam
       /\ selectedParamMin = ParamMin[selectedParam]
       /\ selectedParamMax = ParamMax[selectedParam]
       /\ selectedParamDefault = ParamDefault[selectedParam]
  /\ \A i \in 1 .. Len(calls) :
       /\ calls[i].op = "adjustSelectedParameter" /\ calls[i].fetching
            => calls[i].target = NoId
       /\ calls[i].op = "selected_parameter" /\ calls[i].fetched # NoFetch
            => calls[i].emitted =
                 << ParamEvent(calls[i].target, calls[i].fetched.value,
                               ParamMin[calls[i].target],
                               ParamMax[calls[i].target]) >>

\* C7: a syncRingListeners run that starts with the (tracks, trackOffset,
\* width) of the last completed run invokes no unsubscribe thunk, registers
\* no listener and leaves ringSubs as it was.
C7_SameTripleNoChange ==
  SyncDone /\ lastRun.kind = "same" =>
    lastRun.inv = {} /\ lastRun.reg = {} /\ ringSubs = lastRun.before
\* Such a run has completed on a ring that holds listeners.
C7_Witness ==
  SyncDone /\ lastRun.kind = "same" /\ ringSubs # EmptyMap
             /\ currentRingTrackIds # <<>>

\* C8: when the window (width >= 1) shifts by one position, the run invokes
\* only thunks of keys of the track that left and registers only keys of the
\* track that entered.
C8_ShiftTouchesOnlyTheEdge ==
  SyncDone /\ lastRun.kind \in {"left", "right"} =>
    /\ \A key \in lastRun.inv :
         KeyTrack(key) \in lastRun.oldIds \ SeqToSet(lastRun.newIds)
    /\ \A key \in lastRun.reg :
         KeyTrack(key) \in SeqToSet(lastRun.newIds) \ lastRun.oldIds

\* The toggleMute calls that wrote to `id`, and the RT_MUTE events for ring
\* index k.
MuteCalls(id) ==
  LET hit(c) == c.op = "toggleMute" /\ c.target = id
  IN SelectSeq(calls, hit)
MuteEvents(k) ==
  LET hit(e) == e.evt = "RT_MUTE" /\ e.i = k
  IN SelectSeq(sink, hit)
TwiceToggled(id) == Len(MuteCalls(id)) = 2 /\ MuteSettled(id)
BackToPreState(id) ==
  LET pre == DawMuteAtStart[id]
      k == MuteCalls(id)[1].k
  IN /\ MuteEvents(k) = << [evt |-> "RT_MUTE", i |-> k, v |-> ~pre],
                           [evt |-> "RT_MUTE", i |-> k, v |-> pre] >>
     /\ dawMute[id] = pre

\* C9: toggleMute(k) twice on a resident non-master track, once
\* the DAW has applied both writes and its notifications are delivered,
\* gives exactly two RT_MUTE events for index k, alternating from the
\* negation of the pre-state, and the DAW's mute is the pre-state again,
\* whenever the second call was made.
C9_TwoTogglesAnyTiming ==
  \A id \in TrackIds : TwiceToggled(id) => BackToPreState(id)

\* The same holds when the notification of the first toggle had been
\* delivered before the second call (the case the claim's sources describe).
C9_TwoTogglesInTurn ==
  \A id \in TrackIds :
    TwiceToggled(id) /\ MuteCalls(id)[2].settled => BackToPreState(id)
C9_InTurnReached ==
  \E id \in TrackIds :
    /\ TwiceToggled(id) /\ MuteCalls(id)[2].settled
    /\ Len(MuteEvents(MuteCalls(id)[1].k)) = 2

\* C10: after init(), setupRing(w, s) and then destroy(), each run to
\* completion, ringSubs and globalSubs are empty, no listener is left
\* registered in the DAW (every thunk has been invoked), and
\* currentRingTrackIds, ringIndexByTrackId, trackStates and mixerCache are
\* empty.
C10_DestroyLeavesNothing ==
  phase = "destroyed" =>
    /\ DOMAIN ringSubs = {} /\ DOMAIN globalSubs = {}
    /\ listeners = {}
    /\ currentRingTrackIds = <<>>
    /\ DOMAIN ringIndexByTrackId = {} /\ DOMAIN trackStates = {}
    /\ DOMAIN mixerCache = {}
\* destroy() has returned on a manager whose ring had been set up.
C10_Witness ==
  phase = "destroyed" /\ ringWidth >= 1 /\ syncedAt # <<>>
               /\ Len(syncedAt[1]) >= 1

OffsetCommands == {"setupRing", "setOffset", "navigateRing", "follow"}
\* The ring indexes the events of a full sync of the present state carry.
FullSyncIndexes ==
  { sendFullSync(Mgr)[n].i : n \in 1 .. Len(sendFullSync(Mgr)) }

\* C12: when the ring is wider than the track list, the run that setupRing,
\* setOffset, navigateRing or follow started ends with trackOffset = 0 and a
\* window of exactly the len(tracks) existing tracks, and its full sync
\* covers the ring indexes 0 .. len(tracks) - 1.
C12_WideRingClampsToZero ==
  SyncDone /\ lastRun.op \in OffsetCommands /\ ringWidth > Len(allTracks) =>
    /\ trackOffset = 0
    /\ currentRingTrackIds = allTracks
    /\ FullSyncIndexes = 0 .. Len(allTracks) - 1

\* The keys subscribeRingTrack and the re-subscription keep from the master
\* track: mute, solo, arm and every send.
MasterOnlyProps ==
  { <<"mute">>, <<"solo">>, <<"arm">> }
  \cup { SendProp(si) : si \in 0 .. MaxReturns - 1 }
MasterInWindow == masterTrack # NoId /\ masterTrack \in Residents

\* C13: ringSubs never holds track:{masterId}:mute, :solo, :arm or
\* :send:{i}, whether the master track is inside the window or not, during
\* and after a build and during and after a return_tracks re-subscription.
C13_NoMasterControls ==
  masterTrack # NoId =>
    \A prop \in MasterOnlyProps : RingKey(masterTrack, prop) \notin DOMAIN ringSubs
\* A re-subscription has ended with the master track inside the window,
\* next to a track that has a send listener.
C13_Witness ==
  /\ MasterInWindow
  /\ lastRun.op = None /\ lastRun # NoRun /\ lastRun.cmd = "return_tracks"
  /\ masterTrack \in lastRun.walked /\ lastRun.sends >= 1
  /\ RingKey(masterTrack, <<"name">>) \in DOMAIN ringSubs
  /\ \E id \in Residents : RingKey(id, SendProp(0)) \in DOMAIN ringSubs

\* A sync run that is registering listeners for the tracks that entered.
Registering(r) == r.op # "return_tracks" /\ r.pc \in {"build", "existing"}
Left(r) == r.oldIds \ SeqToSet(r.newIds)

\* C14: while a syncRingListeners run registers the listeners of the tracks
\* that entered, from the first addListener on, its loop over the removed
\* tracks is over, no listener of a track that left is still registered in
\* the DAW, and ringIndexByTrackId maps every track of the new window to its
\* new position.
C14_UnsubscribeThenIndexThenSubscribe ==
  \A r \in runs :
    Registering(r) =>
      /\ r.removed = <<>> /\ r.pending = <<>>
      /\ \A t \in listeners : t.on \notin Left(r)
      /\ \A k \in 1 .. Len(r.newIds) :
           /\ r.newIds[k] \in DOMAIN ringIndexByTrackId
           /\ ringIndexByTrackId[r.newIds[k]] = k - 1
\* A run that unsubscribed a track that left awaits its first addListener
\* for a track that entered, in a window that keeps a track at a new place.
C14_Witness ==
  \E r \in runs :
    /\ Registering(r) /\ r.reg = {} /\ r.inv # {} /\ Left(r) # {}
    /\ \E id \in r.oldIds \cap SeqToSet(r.newIds) :
         IndexOf(r.newIds, id) # IndexOf(currentRingTrackIds, id)

\* The command or event that ended in the last step without a sync run
\* completing, if it left a note.
LastCmd == IF lastRun.op = None /\ lastRun # NoRun THEN lastRun.cmd ELSE None

\* C15: when an RPC of the build of a track that enters the ring is
\* rejected, the handler still ends with every track of the new window
\* built (an entry in trackStates and one in mixerCache, listeners
\* registered for the failed track beyond those it had at the failure) and
\* with currentRingTrackIds equal to the new window.
C15_FailureDoesNotStopBuild ==
  LastCmd = "failed" =>
    /\ currentRingTrackIds = lastRun.newIds
    /\ \A id \in SeqToSet(lastRun.newIds) :
         id \in DOMAIN trackStates /\ id \in DOMAIN mixerCache
    /\ RingKey(lastRun.track, <<"name">>) \in DOMAIN ringSubs

\* The selected_parameter pushes that ended in the catch of lines 672-674.
FailedPushes ==
  { i \in 1 .. Len(calls) :
      calls[i].op = "selected_parameter" /\ calls[i].failed }

\* C16: a selected-parameter switch in which a metadata fetch or the
\* registration of the value listener fails ends with selectedParam null
\* and selectedParamSwitching false, and has emitted one blank RT_PARAM.
C16_FailedSwitchBlanks ==
  \A i \in FailedPushes :
    /\ calls[i].after = [sel |-> NoId, sw |-> FALSE]
    /\ calls[i].emitted = << BlankParamEvent >>

\* ---------------------------------------------------------------------- C17
\* The step is a call of one of the commands `ops`.
Called(ops) ==
  /\ Len(calls') = Len(calls) + 1
  /\ calls'[Len(calls')].op \in ops
WriteCommands ==
  {"toggleMute", "toggleSolo", "toggleArm", "setVolume", "setPanning",
   "setSend", "setActivePropertyValue", "adjustActivePropertyValue",
   "adjustSelectedParameter", "resetActivePropertyValue",
   "resetSelectedParameter"}
ListenerFired == inbox # <<>> /\ inbox' = Tail(inbox)

\* C17: a write command changes no cached field (trackStates, the mixer
\* cache, the selected-parameter cache, the window, the active property, the
\* subscriptions) and emits nothing; the cached mute and the cached parameter
\* value, and the RT_MUTE and RT_PARAM events that report them, change only in
\* the step in which the DAW's notification reaches the listener.
C17_WritesLeaveTheCacheAlone ==
  [][/\ Called(WriteCommands) =>
          UNCHANGED <<ringVars, globalSubs, activeProperty, paramVars,
                      listeners, sink>>
     /\ trackStates' # trackStates \/ selectedParamValue' # selectedParamValue
          => ListenerFired /\ sink' # sink]_vars

\* A toggleMute that wrote has been answered by the listener: the cache
\* holds the new value and it has been reported.
C17_Witness ==
  /\ \E n \in 1 .. Len(calls) :
       /\ calls[n].op = "toggleMute" /\ calls[n].target # NoId
       /\ trackStates[calls[n].target].mute = ~DawMuteAtStart[calls[n].target]
  /\ writes = <<>> /\ inbox = <<>>
  /\ sink # <<>> /\ sink[Len(sink)].evt = "RT_MUTE"

\* ---------------------------------------------------------------------- C18
RingIndexCommands ==
  {"toggleMute", "toggleSolo", "toggleArm", "setVolume", "setPanning",
   "setSend", "selectTrackInRing", "setActivePropertyValue",
   "adjustActivePropertyValue", "resetActivePropertyValue"}
ActivePropertyCommands ==
  {"setActivePropertyValue", "adjustActivePropertyValue",
   "resetActivePropertyValue"}
NotResident(k) == k < 0 \/ k >= Len(currentRingTrackIds)
Unparseable ==
  IsSendProperty(activeProperty) /\ ParseSendIndex(activeProperty) = NaN

\* C18: a ring-relative command called with a ring index that denotes no
\* resident, or a command on the active property called while that property
\* is a send:N whose N does not parse, sends no write, emits nothing and
\* changes no state.
C18_BadIndexIsSilent ==
  [][(\/ Called(RingIndexCommands) /\ NotResident(calls'[Len(calls')].k)
      \/ Called(ActivePropertyCommands) /\ Unparseable)
       => /\ writes' = writes
          /\ UNCHANGED <<ringVars, globalSubs, activeProperty, paramVars,
                         listeners, inbox, sink>>]_vars

\* ---------------------------------------------------------------------- C19
\* The step delivers a mute notification to the listener of a track that is
\* in the window, while no handler is suspended.
MuteFiresOnResident ==
  /\ ListenerFired /\ Head(inbox).kind = "mute"
  /\ Head(inbox).id \in Residents /\ runs = {}

ResidentReport(id, i) ==
  LET state == trackStates[id]
  IN << [evt |-> "RT_MUTE", i |-> i, v |-> state.mute],
        [evt |-> "RT_SOLO", i |-> i, v |-> state.solo],
        [evt |-> "RT_ARM", i |-> i, v |-> state.arm] >>
     \o (IF state.isMidi THEN <<>>
         ELSE << [evt |-> "RT_VOL", i |-> i, v |-> state.volume],
                 [evt |-> "RT_PAN", i |-> i, v |-> state.panning] >>)
     \o << [evt |-> "RT_INFO", i |-> i, name |-> state.name,
             isMidi |-> state.isMidi] >>
     \o [n \in 1 .. state.sends |->
           [evt |-> "RT_SEND", i |-> i, si |-> n - 1, v |-> state.sendv]]
RECURSIVE WindowReport(_)
WindowReport(k) ==
  IF k > Len(currentRingTrackIds) THEN <<>>
  ELSE ResidentReport(currentRingTrackIds[k], k - 1) \o WindowReport(k + 1)

\* C20: the full sync that ends a syncRingListeners run reports every
\* resident, in ring order and at its position in the window: RT_MUTE,
\* RT_SOLO, RT_ARM, then RT_VOL and RT_PAN unless the track is MIDI, then
\* RT_INFO, then one RT_SEND per cached send, with the values of trackStates.
C20_FullSyncDescribesWindow ==
  SyncDone =>
    /\ \A id \in Residents : id \in DOMAIN trackStates
    /\ sendFullSync(Mgr) = WindowReport(1)

\* ------------------------------------------------------------------- C21
Clamp(x, lo, hi) == Max2(lo, Min2(x, hi))
SelectedCalls ==
  { i \in 1 .. Len(calls) : calls[i].op = "selected_track" /\ calls[i].k # -1 }
Outside(c) == ~(c.k >= c.from[1] /\ c.k < c.from[1] + c.from[2])
SelectedEmitted(c) ==
  LET sel(e) == e.evt = "RT_SELECTED" IN SelectSeq(c.emitted, sel)

\* C21: a selected_track change to the track at absolute index a moves the
\* window to clamp(a, 0, len(tracks) - width) and runs a diff when a was
\* outside the window, and the RT_SELECTED that follows has index a and a
\* ring index of 0 or more; when a was inside the window, the offset stays
\* and no diff is run.
C21_SelectionFollows ==
  \A i \in SelectedCalls :
    LET c == calls[i]
    IN IF Outside(c)
       THEN /\ c.offset = Clamp(c.k, 0, c.from[3] - c.from[2])
            /\ c.kind # "other"
            /\ c.from[2] >= 1 =>
                 /\ Len(SelectedEmitted(c)) = 1
                 /\ SelectedEmitted(c)[1].index = c.k
                 /\ SelectedEmitted(c)[1].ringIndex >= 0
       ELSE c.offset = c.from[1] /\ c.kind = "other"

\* A selection past the last full window has been followed, the offset
\* clamped below the selected index, and a later selection inside the
\* window has left the window where it was.
C21_Witness ==
  \E i, j \in SelectedCalls :
    /\ Outside(calls[i])
    /\ calls[i].offset < calls[i].k
    /\ calls[i].offset # calls[i].from[1]
    /\ SelectedEmitted(calls[i])[1].ringIndex > 0
    /\ i < j /\ ~Outside(calls[j]) /\ calls[j].k > 0

\* ------------------------------------------------------------------- C22
\* The last thing that happened is a rename of the selected track, and every
\* notification of it has reached its listener.
RenameSettled ==
  /\ calls # <<>> /\ calls[Len(calls)].op = "rename"
  /\ calls[Len(calls)].selected
  /\ inbox = <<>> /\ runs = {}
LastRename == calls[Len(calls)]
SinceRename == SubSeq(sink, LastRename.mark + 1, Len(sink))
SelectedRenamed ==
  [evt |-> "RT_SELECTED", index |-> selectedTrackIndex,
   ringIndex |-> IF LastRename.resident
                 THEN ringIndexByTrackId[LastRename.target] ELSE -1,
   name |-> LastRename.name]
InfoRenamed ==
  [evt |-> "RT_INFO", i |-> ringIndexByTrackId[LastRename.target],
   name |-> LastRename.name,
   isMidi |-> trackStates[LastRename.target].isMidi]

PerTrack(t) == StartsWith(t.key, <<"track:">>)

\* C23: from the end of init() until setupRing is first called (the ring has
\* no width), the ring stays empty whatever DAW events arrive: no resident,
\* no key in ringSubs and no per-track listener registered.
C23_RingEmptyBeforeSetup ==
  ringWidth = 0 =>
    /\ currentRingTrackIds = <<>>
    /\ ringSubs = EmptyMap
    /\ ~ \E t \in listeners : PerTrack(t)
    /\ \A r \in runs : r.held = NoThunk \/ ~PerTrack(r.held)

\* Before any setupRing, a selection has been followed to a track past the
\* first one and its handler has run to the end, after a tracks event.
C23_Witness ==
  /\ ringWidth = 0 /\ runs = {}
  /\ trackOffset > 0 /\ selectedTrackIndex > 0
  /\ syncedAt # <<InitialTracks, 0, 0>>
  /\ opsLeft = 0

\* ------------------------------------------------------------------- C24
\* The handlers of a playing slot that have run to their end: the initial
\* read of a selection and every playing_slot_index notification.
SlotCalls ==
  { i \in 1 .. Len(calls) : calls[i].op \in {"selected_track", "playing_slot"} }
ClipEmitted(c) ==
  LET clip(e) == e.evt = "RT_PLAYING_CLIP" IN SelectSeq(c.emitted, clip)

\* C24: every handler of a playing slot has unsubscribed the listeners on a
\* clip's name and color that it found and emits exactly one
\* RT_PLAYING_CLIP: the empty one when the index is below 0 or the slot
\* holds no clip, and then it registers nothing on a clip; otherwise one
\* with the clip's color, and it has registered a listener on the clip's
\* name and one on its color.
C24_OneClipEventPerSlot ==
  \A i \in SlotCalls :
    LET c == calls[i]
    IN /\ c.torn
       /\ Len(ClipEmitted(c)) = 1
       /\ c.slot < 0 => ClipEmitted(c)[1] = EmptyClipEvent
       /\ IF ClipEmitted(c)[1] = EmptyClipEvent
          THEN c.reg \cap {KeyClipName, KeyClipColor} = {}
          ELSE /\ ClipEmitted(c)[1].color = ClipColor
               /\ {KeyClipName, KeyClipColor} \subseteq c.reg

\* ------------------------------------------------------------------- C25
GroupCalls(ops) == { i \in 1 .. Len(calls) : calls[i].op \in ops }
Replaced(c) == c.op = "add" /\ c.arg \in DOMAIN c.before

\* C25: an add on a key the group holds invokes the prior unsubscribe once
\* and nothing else, stores the new unsubscribe under the key also when the
\* prior one raised, and leaves the other entries and the size of the group
\* as they were.
C25_AddReplacesExisting ==
  \A i \in GroupCalls({"add"}) :
    LET c == calls[i]
    IN Replaced(c) =>
         /\ c.invoked = << c.before[c.arg] >>
         /\ DOMAIN c.after = DOMAIN c.before
         /\ c.after = [c.before EXCEPT ![c.arg] = c.new]
         /\ c.new # c.before[c.arg]

\* An add has replaced an entry whose unsubscribe raised, in a group of two.
C25_Witness ==
  \E i \in GroupCalls({"add"}) :
    /\ Replaced(calls[i]) /\ calls[i].raised # {}
    /\ Cardinality(DOMAIN calls[i].after) = 2

\* ------------------------------------------------------------------- C26
Matching(c) ==
  IF c.op = "remove" THEN DOMAIN c.before \cap {c.arg}
  ELSE { k \in DOMAIN c.before : StartsWith(k, c.arg) }

\* C26: removeByPrefix invokes the unsubscribe of every entry whose key
\* starts with the prefix, once each and also when some raise, and drops
\* these entries; every other entry stays, not invoked; with no matching key
\* nothing happens, and remove of an absent key does nothing.
C26_RemoveDropsMatching ==
  \A i \in GroupCalls({"remove", "removeByPrefix"}) :
    LET c == calls[i]
    IN /\ Len(c.invoked) = Cardinality(Matching(c))
       /\ SeqToSet(c.invoked) = { c.before[k] : k \in Matching(c) }
       /\ DOMAIN c.after = DOMAIN c.before \ Matching(c)
       /\ \A k \in DOMAIN c.after : c.after[k] = c.before[k]
       /\ Matching(c) = {} => c.after = c.before /\ c.invoked = <<>>

\* A removeByPrefix has dropped two entries, one of whose unsubscribes
\* raised, and has left a third one.
C26_Witness ==
  \E i \in GroupCalls({"removeByPrefix"}) :
    /\ Cardinality(Matching(calls[i])) = 2
    /\ calls[i].raised # {}
    /\ DOMAIN calls[i].after # {}

\* ------------------------------------------------------------------- C27
\* C27: while a clear awaits its unsubscribes the Map is empty (size 0, has
\* false for every key), and a clear that has returned has invoked every
\* unsubscribe of its snapshot once, also when some raised.
C27_ClearEmptiesFirst ==
  /\ \A r \in runs : r.pc = "groupClear" => globalSubs = EmptyMap
  /\ \A i \in GroupCalls({"clear"}) :
       LET c == calls[i]
       IN /\ Len(c.invoked) = Cardinality(DOMAIN c.before)
          /\ SeqToSet(c.invoked) = Range(c.before)
          /\ c.after = EmptyMap

\* A clear of two entries is waiting for the second unsubscribe after the
\* first one raised.
C27_Witness ==
  \E r \in runs :
    /\ r.pc = "groupClear" /\ Len(r.invoked) = 2
    /\ Len(r.pending) = 1 /\ r.raised # {}
    /\ globalSubs = EmptyMap

\* ------------------------------------------------------------------- C28
\* The N of "send:N", or -1 when there is none.
SendNumber(property) ==
  CASE property = "send:0" -> 0
    [] property = "send:7" -> 7
    [] OTHER -> -1
\* Whether the resident has a value to show under the property.
Shows(property, id) ==
  IF property \in {"volume", "panning"} THEN ~trackStates[id].isMidi
  ELSE SendNumber(property) >= 0
       /\ SendNumber(property) < trackStates[id].sends
PushOf(property, n) ==
  LET id == currentRingTrackIds[n]
  IN CASE property = "volume" ->
            [evt |-> "RT_VOL", i |-> n - 1, v |-> trackStates[id].volume]
       [] property = "panning" ->
            [evt |-> "RT_PAN", i |-> n - 1, v |-> trackStates[id].panning]
       [] OTHER ->
            [evt |-> "RT_SEND", i |-> n - 1, si |-> SendNumber(property),
             v |-> trackStates[id].sendv]
RECURSIVE PushFrom(_, _)
PushFrom(property, n) ==
  IF n > Len(currentRingTrackIds) THEN <<>>
  ELSE (IF Shows(property, currentRingTrackIds[n])
        THEN << PushOf(property, n) >> ELSE <<>>)
       \o PushFrom(property, n + 1)
ExpectedPush(property) ==
  IF property = "selected_parameter"
  THEN IF selectedParam = NoId THEN << BlankParamEvent >>
       ELSE << ParamEvent(selectedParamName, selectedParamValue,
                          selectedParamMin, selectedParamMax) >>
  ELSE PushFrom(property, 1)

\* C28: setActiveProperty(p) assigns activeProperty and emits the current
\* state: for selected_parameter one RT_PARAM, blank when no parameter is
\* selected; otherwise, in ring order, one RT_VOL, RT_PAN or RT_SEND per
\* resident with the cached value and the resident's ring index, without the
\* MIDI tracks for volume and panning and without the residents that have
\* no send N.
C28_ActivePropertyPush ==
  [][\A q \in PushArgs :
       SetActiveProperty(q) =>
         /\ activeProperty' = q
         /\ sink' = sink \o ExpectedPush(q)]_vars
\* ------------------------------------------------------------------- C29
\* The resident at a ring index, NoId when the index denotes none.
ResidentAt(k) ==
  IF k >= 0 /\ k < Len(currentRingTrackIds) THEN currentRingTrackIds[k + 1]
  ELSE NoId
\* The write an adjustment of the active property is to send, if any.
ExpectedWrite(k, delta, step) ==
  LET id == ResidentAt(k)
      n == SendNumber(activeProperty)
  IN CASE activeProperty = "selected_parameter" ->
            IF selectedParam = NoId \/ selectedParamSwitching
               \/ selectedParamMax = selectedParamMin
            THEN <<>>
            ELSE << [obj |-> selectedParam, prop |-> "value",
                     value |-> Clamp(selectedParamValue
                                     + delta * step
                                       * (selectedParamMax - selectedParamMin),
                                     selectedParamMin, selectedParamMax)] >>
       [] id = NoId -> <<>>
       [] activeProperty = "volume" /\ ~trackStates[id].isMidi ->
            << [obj |-> id, prop |-> "volume",
                value |-> Clamp(trackStates[id].volume + delta * step, 0, 1)] >>
       [] activeProperty = "panning" /\ ~trackStates[id].isMidi ->
            << [obj |-> id, prop |-> "panning",
                value |-> Clamp(trackStates[id].panning + delta * step * 2,
                                -1, 1)] >>
       [] n >= 0 /\ n < trackStates[id].sends ->
            << [obj |-> id, prop |-> "send", si |-> n,
                value |-> Clamp(trackStates[id].sendv + delta * step, 0, 1)] >>
       [] OTHER -> <<>>
\* The write lies inside the native range of its parameter.
InRange(w) ==
  CASE w.prop = "panning" -> w.value >= -1 /\ w.value <= 1
    [] w.prop = "value" ->
         w.value >= selectedParamMin /\ w.value <= selectedParamMax
    [] OTHER -> w.value >= 0 /\ w.value <= 1
\* The one event the listener emits for a notification.
ExpectedEvent(e) ==
  CASE e.kind = "volume" ->
         [evt |-> "RT_VOL", i |-> IndexOf(currentRingTrackIds, e.id), v |-> e.v]
    [] e.kind = "panning" ->
         [evt |-> "RT_PAN", i |-> IndexOf(currentRingTrackIds, e.id), v |-> e.v]
    [] e.kind = "send" ->
         [evt |-> "RT_SEND", i |-> IndexOf(currentRingTrackIds, e.id),
          si |-> e.si, v |-> e.v]
    [] OTHER -> ParamEvent(selectedParamName, e.v, selectedParamMin,
                           selectedParamMax)

\* C29: adjustActivePropertyValue(k, delta, step) sends one write, to the
\* active property of the resident at ring index k (or to the selected
\* parameter), of the cached value moved by delta*step (doubled for panning,
\* scaled by max - min for the selected parameter) and clamped to the native
\* range; it emits nothing and so does the DAW when it applies the write;
\* the DAW notifies at most once per write, with the value written, and the
\* listener then emits exactly one event, carrying that value.
C29_AdjustWritesClamped ==
  [][/\ \A k \in RingIndexArgs, d \in Deltas, st \in StepSizes :
          AdjustActivePropertyValue(k, d, st) =>
            /\ writes' = writes \o ExpectedWrite(k, d, st)
            /\ \A w \in SeqToSet(ExpectedWrite(k, d, st)) : InRange(w)
            /\ sink' = sink /\ inbox' = inbox
     /\ DawApply \/ DawApplyMixer =>
          /\ sink' = sink
          /\ Len(inbox') <= Len(inbox) + 1
          /\ Len(inbox') = Len(inbox) + 1 =>
               /\ inbox'[Len(inbox')].v = Head(writes).value
               /\ inbox'[Len(inbox')].id = Head(writes).obj
     /\ Deliver \/ DeliverMixer =>
          sink' = sink \o << ExpectedEvent(Head(inbox)) >>]_vars

\* The panning of the first resident, 0 at the start, was adjusted by -1 with
\* a step of 1: the write was clamped to -1, and the listener has cached the
\* value and emitted the one RT_PAN.
C29_Witness ==
  /\ activeProperty = "panning"
  /\ calls # <<>>
  /\ calls[Len(calls)].op = "adjustActivePropertyValue"
  /\ calls[Len(calls)].k = 0
  /\ currentRingTrackIds[1] = IdA
  /\ session.panning[IdA] = -1 /\ trackStates[IdA].panning = -1
  /\ writes = <<>> /\ inbox = <<>>
  /\ sink # <<>>
  /\ sink[Len(sink)] = [evt |-> "RT_PAN", i |-> 0, v |-> -1]
\* ------------------------------------------------------------------- C30
\* A re-subscription of the sends has ended in the last step.
ResubDone ==
  lastRun.op = None /\ lastRun # NoRun /\ lastRun.cmd = "return_tracks"
SendKeys(id) ==
  { key \in DOMAIN ringSubs : StartsWith(key, RingKey(id, <<"send">>)) }
SendListeners(id) ==
  { t \in listeners : StartsWith(t.key, RingKey(id, <<"send">>)) }
\* The events of a full sync for the resident at position n of the window.
SyncOf(n) ==
  LET id == currentRingTrackIds[n]
      s == trackStates[id]
  IN << [evt |-> "RT_MUTE", i |-> n - 1, v |-> s.mute],
        [evt |-> "RT_SOLO", i |-> n - 1, v |-> s.solo],
        [evt |-> "RT_ARM", i |-> n - 1, v |-> s.arm] >>
     \o (IF s.isMidi THEN <<>>
         ELSE << [evt |-> "RT_VOL", i |-> n - 1, v |-> s.volume],
                 [evt |-> "RT_PAN", i |-> n - 1, v |-> s.panning] >>)
     \o << [evt |-> "RT_INFO", i |-> n - 1, name |-> s.name,
             isMidi |-> s.isMidi] >>
     \o [k \in 1 .. s.sends |->
           [evt |-> "RT_SEND", i |-> n - 1, si |-> k - 1, v |-> s.sendv]]
RECURSIVE SyncFromPosition(_)
SyncFromPosition(n) ==
  IF n > Len(currentRingTrackIds) THEN <<>>
  ELSE SyncOf(n) \o SyncFromPosition(n + 1)
EndsWith(s, tail) ==
  Len(tail) <= Len(s) /\ SubSeq(s, Len(s) - Len(tail) + 1, Len(s)) = tail

\* C30: once a return_tracks change has been handled and no handler is left
\* suspended, every resident other than the master has in ringSubs the keys
\* track:{id}:send:{i} of exactly its current sends, each holding the only
\* listener registered on that send, its mixerCache and trackStates entries
\* have the current number of sends, and the last thing emitted is a full
\* sync of the window.
C30_SendsRebuilt ==
  ResubDone /\ runs = {} =>
    /\ \A id \in Residents \ {masterTrack} :
         /\ SendKeys(id)
              = { RingKey(id, SendProp(i)) : i \in 0 .. session.returns - 1 }
         /\ \A t \in SendListeners(id) :
              t.key \in DOMAIN ringSubs /\ ringSubs[t.key] = t
         /\ id \in DOMAIN mixerCache /\ mixerCache[id].sends = session.returns
         /\ id \in DOMAIN trackStates /\ trackStates[id].sends = session.returns
    /\ \A id \in Residents : id \in DOMAIN trackStates
    /\ EndsWith(sink, SyncFromPosition(1))
\* ------------------------------------------------------------------- C31
\* The tracks that entered the window in the run that has just completed.
Entered == SeqToSet(lastRun.newIds) \ lastRun.oldIds
\* The cached state of the track holds what the DAW holds.
CacheIsLive(id) ==
  LET s == trackStates[id]
  IN /\ s.name = dawName[id]
     /\ s.color = session.color[id]
     /\ id # DawMaster => /\ s.mute = dawMute[id]
                          /\ s.solo = (id \in session.soloed)
                          /\ s.sends = session.returns
                          /\ s.sendv = session.sendv
     /\ s.canBeArmed = DawCanBeArmed(id)
     /\ DawCanBeArmed(id) => s.arm = (id \in session.armed)
     /\ ~DawIsMidi(id) => /\ s.volume = session.volume[id]
                          /\ s.panning = session.panning[id]

\* C31: when a sync run has built the tracks that entered the window, nothing
\* changed in the DAW while it ran and no notification is pending, the cached
\* name, color, mute, solo, arm, volume, panning and sends of each of them
\* are the DAW's, also when a value was changed after the manager received
\* the track handle.
C31_EntryReadsTheDaw ==
  SyncDone /\ runs = {} /\ inbox = <<>> =>
    \A id \in Entered : id \in DOMAIN trackStates /\ CacheIsLive(id)
\* ------------------------------------------------------------------- C32
\* The tracks that were in the window before the run that has just completed
\* and are in it after.
StillResident == SeqToSet(lastRun.newIds) \cap lastRun.oldIds

\* C32: a sync run unsubscribes no listener of a track that stays in the
\* window: none of the keys whose unsubscribe it invoked belongs to such a
\* track, and the name key of every such track is still in ringSubs with its
\* listener registered, also when the id of the track that left is a prefix
\* of the id of one that stays.
C32_StayersKeepTheirListeners ==
  SyncDone =>
    \A id \in StillResident :
      /\ \A key \in lastRun.inv : KeyTrack(key) # id
      /\ RingKey(id, <<"name">>) \in DOMAIN ringSubs
      /\ ringSubs[RingKey(id, <<"name">>)] \in listeners
\* ------------------------------------------------------------------- C33
\* The ids of tracks[trackOffset : trackOffset + width].
LatestWindow == Slice(allTracks, trackOffset, trackOffset + ringWidth)

\* C33: once every syncRingListeners run has completed, overlapping ones
\* included, currentRingTrackIds is the latest window, trackStates, mixerCache
\* and ringIndexByTrackId have entries for exactly its ids, and every key of
\* ringSubs belongs to one of them.
C33_QuiescentRingIsLatestWindow ==
  SyncDone /\ runs = {} =>
    /\ currentRingTrackIds = LatestWindow
    /\ DOMAIN trackStates = SeqToSet(LatestWindow)
    /\ DOMAIN mixerCache = SeqToSet(LatestWindow)
    /\ DOMAIN ringIndexByTrackId = SeqToSet(LatestWindow)
    /\ \A key \in DOMAIN ringSubs : KeyTrack(key) \in SeqToSet(LatestWindow)
\* ------------------------------------------------------------------- C34
\* The unsubscribes a suspended call has invoked and that have not returned.
InFlight(r) ==
  ({ r.existing } \ { NoThunk })
    \cup { r.pending[i].thunk : i \in 1 .. Len(r.pending) }
\* The unsubscribes that raised in a call that has returned.
RaisedThunks == UNION { calls[i].raised : i \in 1 .. Len(calls) }

\* C34: under any interleaving of add, remove, removeByPrefix and clear, no
\* unsubscribe is invoked by two calls, and when no call is suspended every
\* listener that was passed to add and is still registered is either stored
\* in the Map or has had its unsubscribe invoked (and raise).
C34_NoLeakNoDoubleUnsubscribe ==
  /\ \A r1, r2 \in runs : r1 # r2 => InFlight(r1) \cap InFlight(r2) = {}
  /\ runs = {} => listeners \ Range(globalSubs) \subseteq RaisedThunks
\* ------------------------------------------------------------------- C35
\* The last event of a type the sink holds for a ring index, in a set: empty
\* when there is none.
LastEvent(evt, i) ==
  LET at == { n \in 1 .. Len(sink) : sink[n].evt = evt /\ sink[n].i = i }
  IN { sink[n] : n \in { k \in at : \A j \in at : j <= k } }

\* C35: once a sync has completed, no handler is suspended and every
\* notification has been delivered, the state of each track the sync built
\* holds the mute the DAW has now, also when it changed during the build, and
\* so does the last RT_MUTE emitted for the track.
C35_BuildSeesDawChanges ==
  SyncDone /\ runs = {} /\ inbox = <<>> =>
    \A id \in Entered :
      /\ id \in DOMAIN trackStates
      /\ id # DawMaster => trackStates[id].mute = dawMute[id]
      /\ id # DawMaster /\ id \in DOMAIN ringIndexByTrackId =>
           \A e \in LastEvent("RT_MUTE", ringIndexByTrackId[id]) :
             e.v = dawMute[id]
\* ------------------------------------------------------------------- C36
\* C36: a toggleMute with ring index k that sends a write, at any moment,
\* targets the track that events report under index k, the id that
\* ringIndexByTrackId maps to k.
C36_WriteTargetsShownTrack ==
  [][Called({"toggleMute"}) /\ calls'[Len(calls')].target # NoId
       => LET c == calls'[Len(calls')]
          IN /\ c.target \in DOMAIN ringIndexByTrackId
             /\ ringIndexByTrackId[c.target] = c.k]_vars
\* ------------------------------------------------------------------- C37
\* The value listeners that are registered in the DAW.
ValueListeners == { t \in listeners : t.key = KeyParamValue }

\* C37: once every selected_parameter handler has completed, the cached
\* parameter with its name, value, min, max and default, and the only value
\* listener, are those of the parameter pushed last; after a push of null
\* nothing is cached and no value listener is left.
C37_LastPushWins ==
  runs = {} =>
    /\ selectedParam = session.param
    /\ session.param = NoId =>
         /\ selectedParamName = NoId
         /\ KeyParamValue \notin DOMAIN globalSubs
         /\ ValueListeners = {}
    /\ session.param # NoId =>
         /\ selectedParamName = session.param
         /\ selectedParamValue = dawParam[session.param]
         /\ selectedParamMin = ParamMin[session.param]
         /\ selectedParamMax = ParamMax[session.param]
         /\ selectedParamDefault = ParamDefault[session.param]
         /\ KeyParamValue \in DOMAIN globalSubs
         /\ ValueListeners = { globalSubs[KeyParamValue] }
         /\ globalSubs[KeyParamValue].on = session.param
\* ------------------------------------------------------------------- C38
\* The keys of the listeners on the selected track and its playing clip.
FocusKeys == {KeySelName, KeySelColor, KeyClipSlot, KeyClipName, KeyClipColor}
FocusListeners == { t \in listeners : t.key \in FocusKeys }

\* C38: once every selected_track handler has completed and every
\* notification is delivered, the index and the name cached are those of the
\* track selected last, the name, color and slot listeners are registered on
\* it, and every listener under a selected_track key is the one the Map
\* holds, on that track or its clip.
C38_LastSelectionWins ==
  runs = {} /\ inbox = <<>> /\ session.selected # NoId =>
    /\ selectedTrackIndex = IndexOf(allTracks, session.selected)
    /\ selectedTrackName = dawName[session.selected]
    /\ \A k \in {KeySelName, KeySelColor, KeyClipSlot} :
         k \in DOMAIN globalSubs /\ globalSubs[k].on = session.selected
    /\ \A t \in FocusListeners :
         /\ t.key \in DOMAIN globalSubs /\ globalSubs[t.key] = t
         /\ t.on \in {session.selected, ClipOf(session.selected)}
\* ------------------------------------------------------------------- C39
\* The events a step adds to the sink.
NewEvents == { sink'[n] : n \in Len(sink) + 1 .. Len(sink') }
\* The step delivers a mute notification to a listener that is registered.
MuteListenerFires ==
  /\ ListenerFired /\ Head(inbox).kind = "mute"
  /\ \E t \in listeners :
       t.key = RingKey(Head(inbox).id, <<"mute">>) /\ t.on = Head(inbox).id

\* C39: every event a mute listener emits, also while a ring move is in
\* progress, carries a ring index i with 0 <= i < ringWidth, and the track it
\* reports is the one the last full sync reported under i, the track at
\* position i of currentRingTrackIds: between two full syncs no two tracks
\* are reported under one index.
C39_EventIndexIsWindowPosition ==
  [][MuteListenerFires =>
       \A e \in NewEvents :
         /\ e.i >= 0 /\ e.i < ringWidth
         /\ e.i < Len(currentRingTrackIds)
         /\ currentRingTrackIds[e.i + 1] = Head(inbox).id]_vars
\* ------------------------------------------------------------------- C40
\* Nothing is subscribed, cached or registered.
NothingLeft ==
  /\ DOMAIN ringSubs = {} /\ DOMAIN globalSubs = {}
  /\ currentRingTrackIds = <<>>
  /\ DOMAIN ringIndexByTrackId = {} /\ DOMAIN trackStates = {}
  /\ DOMAIN mixerCache = {}
  /\ listeners = {}

\* C40: when destroy() has returned, also when it was called while a sync
\* was suspended, both groups, the window, the three maps and the listeners
\* registered in the DAW are empty; they stay empty and nothing more is
\* emitted.
C40_DestroyIsFinal ==
  [][phase' = "destroyed" =>
       /\ NothingLeft'
       /\ phase = "destroyed" => sink' = sink]_vars

====
